---- MODULE Spec2Model ----
(***************************************************************************)
(* A model of rps (the Roaring Penguin IP reputation reporting system):    *)
(* the report server's RequestHandler.handle / process_subreports, the     *)
(* shared ReportServer state (recent_reports, report_count), and the       *)
(* ReportClient (events buffer, generate_report, send_report).             *)
(*                                                                         *)
(* Byte strings are sequences of naturals in 0..255.  The code is Python 2 *)
(* code (str is a byte string, ord() of a one-byte str), and is modelled   *)
(* with Python 2 semantics.                                                *)
(***************************************************************************)
EXTENDS Integers, Sequences, FiniteSets, TLC

\* ------------------------------------------------------------------------
\* Bounds of the model
\* ------------------------------------------------------------------------
\* The clock's value in the initial state (seconds since the epoch).
T0 == 1000
\* How many times the clock advances in one behaviour.
MaxTicks == 2
\* How many datagrams the server reads in one behaviour.
MaxReceived == 3
\* Most subreports the application buffers between two sends.
MaxBuffer == 2
\* Events in the large IPv4Events subreport the application may buffer.
BatchSize == 73
\* Most subreports in a list that generate_report is called with directly.
MaxList == 3
\* Most events in a subreport that is encoded and decoded again.
MaxEvents == 2

\* ------------------------------------------------------------------------
\* Program constants
\* ------------------------------------------------------------------------
VERSION == 2
\* "time.time() - timestamp > 120" in handle
StaleAfter == 120
\* "time.time() - old_timestamp > 120" in handle's clearing loop
SweepAfter == 120
\* "report[:-10], report[-10:]" and "digest()[:10]"
FooterLength == 10

EVENTS ==
    << "RESERVED", "GREYLISTED", "UNGREYLISTED", "AUTO-SPAM", "HAND-SPAM",
       "AUTO-HAM", "HAND-HAM", "VALID-RECIPIENT", "INVALID-RECIPIENT",
       "VIRUS", "PHISH", "AUTH-FAILED" >>

\* ------------------------------------------------------------------------
\* Byte strings
\* ------------------------------------------------------------------------
Min(a, b) == IF a < b THEN a ELSE b
Max(a, b) == IF a < b THEN b ELSE a

\* s[:n] and s[n:] for n >= 0, as Python slices them (never an error).
Take(s, n) == SubSeq(s, 1, Min(n, Len(s)))
Drop(s, n) == SubSeq(s, Min(n, Len(s)) + 1, Len(s))
\* s[:-n] and s[-n:] for n > 0.
DropLast(s, n) == Take(s, Max(Len(s) - n, 0))
TakeLast(s, n) == Drop(s, Max(Len(s) - n, 0))

\* n times x
RECURSIVE Repeat(_, _)
Repeat(x, n) ==
    IF n = 0 THEN << >>
    ELSE IF n = 1 THEN << x >>
    ELSE Repeat(x, n \div 2) \o Repeat(x, n - n \div 2)

\* struct.pack("!H", n) and struct.pack("!I", n) for n in range.
PackU16(n) == << (n \div 256) % 256, n % 256 >>
PackU32(n) ==
    << (n \div 16777216) % 256, (n \div 65536) % 256, (n \div 256) % 256, n % 256 >>
\* struct.unpack("!H", b)[0] and struct.unpack("!I", b)[0].
UnpackU16(b) == b[1] * 256 + b[2]
UnpackU32(b) == ((b[1] * 256 + b[2]) * 256 + b[3]) * 256 + b[4]

\* ------------------------------------------------------------------------
\* hmac.new(password, text, hashlib.sha1).digest()
\*
\* The library's SHA-1 is replaced by a small keyed digest of the same shape
\* (a deterministic function of key and text, 20 bytes long).  Its first two
\* bytes carry the whole accumulator, so two digests are equal exactly when
\* their accumulators are.
\* ------------------------------------------------------------------------
\* The accumulator after the bytes s[lo..hi], fed in order from acc (the
\* range is halved to keep the evaluation shallow).
RECURSIVE MixRange(_, _, _, _)
MixRange(acc, s, lo, hi) ==
    IF lo > hi THEN acc
    ELSE IF lo = hi THEN (acc * 31 + s[lo] + 1) % 65521
    ELSE LET mid == (lo + hi) \div 2
             half == MixRange(acc, s, lo, mid)
         IN  \* the test makes the first half's value known before the second
             \* half is entered
             IF half < 65521 THEN MixRange(half, s, mid + 1, hi) ELSE 0

\* The 20 bytes of the digest with accumulator acc.
DigestBytes(acc) ==
    << acc % 256, acc \div 256,
       (acc * 3 + 3) % 256, (acc * 4 + 4) % 256, (acc * 5 + 5) % 256,
       (acc * 6 + 6) % 256, (acc * 7 + 7) % 256, (acc * 8 + 8) % 256,
       (acc * 9 + 9) % 256, (acc * 10 + 10) % 256, (acc * 11 + 11) % 256,
       (acc * 12 + 12) % 256, (acc * 13 + 13) % 256, (acc * 14 + 14) % 256,
       (acc * 15 + 15) % 256, (acc * 16 + 16) % 256, (acc * 17 + 17) % 256,
       (acc * 18 + 18) % 256, (acc * 19 + 19) % 256, (acc * 20 + 20) % 256 >>

Sha1Digest(text) == DigestBytes(MixRange(17, text, 1, Len(text)))

HmacSha1(password, text) == Sha1Digest(password \o Sha1Digest(password \o text))

\* ------------------------------------------------------------------------
\* Results of operations that may raise.  status is "ok" or the name of the
\* Python exception raised.
\* ------------------------------------------------------------------------
\* None is the empty option; Some(x) holds a value.
None == << >>
Some(x) == << x >>

\* ------------------------------------------------------------------------
\* Addresses (ipaddress / ipaddr collaborator)
\* ------------------------------------------------------------------------
RECURSIVE StripZeros(_)
StripZeros(b) ==
    IF b # << >> /\ Head(b) = 0 THEN StripZeros(Tail(b)) ELSE b

\* b with zero bytes before it, n bytes in all (n <= 16).
LeftPad(b, n) ==
    SubSeq(<< 0, 0, 0, 0, 0, 0, 0, 0, 0, 0, 0, 0, 0, 0, 0, 0 >>, 1, n - Len(b)) \o b

\* ip_address(integer): the bytes are the integer's big-endian digits, as
\* from_bytes sums them.  An integer below 2**32 is an IPv4 address.
AddressFromInt(b) ==
    LET digits == StripZeros(b)
    IN  IF Len(digits) <= 4
        THEN [version |-> 4, packed |-> LeftPad(digits, 4)]
        ELSE [version |-> 6, packed |-> LeftPad(digits, 16)]

\* ip_address(text or address object) of an IPv4 / IPv6 address.
IPv4Address(a, b, c, d) == [version |-> 4, packed |-> << a, b, c, d >>]
IPv6Address(p) == [version |-> 6, packed |-> p]

IsPrivate(address) ==
    LET p == address.packed
    IN  IF address.version = 4
        THEN \/ p[1] = 10
             \/ p[1] = 172 /\ p[2] >= 16 /\ p[2] <= 31
             \/ p[1] = 192 /\ p[2] = 168
        ELSE p[1] \in {252, 253}
IsLoopback(address) ==
    LET p == address.packed
    IN  IF address.version = 4 THEN p[1] = 127
        ELSE p = LeftPad(<< 1 >>, 16)
IsMulticast(address) ==
    LET p == address.packed
    IN  IF address.version = 4 THEN p[1] >= 224 /\ p[1] <= 239
        ELSE p[1] = 255
IsUnspecified(address) ==
    \A i \in DOMAIN address.packed : address.packed[i] = 0
IsSiteLocal(address) ==
    address.version = 6 /\ address.packed[1] = 254 /\ address.packed[2] >= 192
IsLinkLocal(address) ==
    LET p == address.packed
    IN  IF address.version = 4 THEN p[1] = 169 /\ p[2] = 254
        ELSE p[1] = 254 /\ p[2] >= 128 /\ p[2] < 192
IsReserved(address) ==
    LET p == address.packed
    IN  IF address.version = 4 THEN p[1] >= 240
        ELSE \/ p[1] < 32
             \/ p[1] >= 64 /\ p[1] < 252
             \/ p[1] = 254 /\ p[2] < 128

\* Faulty variant: the loopback addresses are let through.
reportable_but_loopback(address) ==
    /\ ~IsPrivate(address)
    /\ ~IsMulticast(address)
    /\ ~IsUnspecified(address)
    /\ ~IsSiteLocal(address)
    /\ ~IsLinkLocal(address)
    /\ ~IsReserved(address)

\* TRUE when no assertion of reportable_ip fails.
reportable_ip(address) ==
    /\ ~IsPrivate(address)
    /\ ~IsLoopback(address)
    /\ ~IsMulticast(address)
    /\ ~IsUnspecified(address)
    /\ ~IsSiteLocal(address)
    /\ ~IsLinkLocal(address)
    /\ ~IsReserved(address)

\* ------------------------------------------------------------------------
\* Subreport classes: the class attributes format and length
\* ------------------------------------------------------------------------
FORMATS ==
    (0 :> "EndOfReport") @@ (1 :> "IPv4Events") @@ (2 :> "IPv6Events") @@
    (3 :> "RepeatedIPv4Events") @@ (4 :> "RepeatedIPv6Events") @@
    (6 :> "SoftwareName") @@ (7 :> "SoftwareVersion") @@ (8 :> "EndUser")

FormatOf(cls) == CHOOSE f \in DOMAIN FORMATS : FORMATS[f] = cls

\* cls.length.  SubReport.length is None and only IPv4Events, IPv6Events and
\* RepeatedIPv4Events override it (RepeatedIPv6Events sets "repeat = 18").
LengthOf(cls) ==
    CASE cls = "IPv4Events" -> Some(5)
      [] cls = "IPv6Events" -> Some(17)
      [] cls = "RepeatedIPv4Events" -> Some(6)
      [] OTHER -> None

EventClasses ==
    {"IPv4Events", "RepeatedIPv4Events", "IPv6Events", "RepeatedIPv6Events"}
RepeatedClasses == {"RepeatedIPv4Events", "RepeatedIPv6Events"}

\* ------------------------------------------------------------------------
\* Events: constructors and from_bytes
\* ------------------------------------------------------------------------
\* IPEvent(address, event): the object, or AssertionError from reportable_ip.
IPEvent(address, event) ==
    IF reportable_ip(address)
    THEN [status |-> "ok",
          value |-> [address |-> address, event |-> event, repeat |-> None]]
    ELSE [status |-> "AssertionError", value |-> None]

\* IPEvent.from_bytes(bytestr), bytestr not empty.
IPEvent_from_bytes(bytestr) ==
    LET index == bytestr[Len(bytestr)]
    IN  IF index + 1 > Len(EVENTS)
        THEN [status |-> "IndexError", value |-> None]
        ELSE IPEvent(AddressFromInt(DropLast(bytestr, 1)), EVENTS[index + 1])

\* RepeatedIPEvent.from_bytes(bytestr), bytestr not empty: the event is looked
\* up from the last byte and the repeat from the byte before it, both in
\* EVENTS.  "assert repeat >= 2" compares a str with an int, which Python 2
\* orders by type name: it holds.
RepeatedIPEvent_from_bytes(bytestr) ==
    LET n == Len(bytestr)
    IN  IF bytestr[n] + 1 > Len(EVENTS) \/ n < 2
        THEN [status |-> "IndexError", value |-> None]
        ELSE IF bytestr[n - 1] + 1 > Len(EVENTS)
        THEN [status |-> "IndexError", value |-> None]
        ELSE LET address == AddressFromInt(DropLast(bytestr, 2))
             IN  IF reportable_ip(address)
                 THEN [status |-> "ok",
                       value |-> [address |-> address,
                                  event |-> EVENTS[bytestr[n] + 1],
                                  repeat |-> Some(EVENTS[bytestr[n - 1] + 1])]]
                 ELSE [status |-> "AssertionError", value |-> None]

\* IPEvents.from_bytes / RepeatedEvents.from_bytes for a class with a length:
\* the events decoded so far, until the bytes run out or an event raises.
RECURSIVE Events_from_bytes(_, _, _)
Events_from_bytes(cls, bytestr, event_list) ==
    IF bytestr = << >> THEN [status |-> "ok", events |-> event_list]
    ELSE LET width == LengthOf(cls)[1]
             event == IF cls \in RepeatedClasses
                      THEN RepeatedIPEvent_from_bytes(Take(bytestr, width))
                      ELSE IPEvent_from_bytes(Take(bytestr, width))
         IN  IF event.status # "ok"
             THEN [status |-> event.status, events |-> event_list]
             ELSE Events_from_bytes(cls, Drop(bytestr, width),
                                    Append(event_list, event.value))

\* ------------------------------------------------------------------------
\* RequestHandler.process_subreports
\* ------------------------------------------------------------------------
Decoded(status, event_list, software_name, software_version, end_user) ==
    [status |-> status, events |-> event_list, software_name |-> software_name,
     software_version |-> software_version, end_user |-> end_user]

\* Faulty variant: every declared length is let through.
CheckLengthAny(report_class, length) == "ok"

\* "assert length % report_class.length == 0" for the event classes and
\* "assert length == report_class.length" for the others: "ok", or the
\* exception.  A class length of None never equals an integer, and taking
\* an integer modulo None is a TypeError.
CheckLength(report_class, length) ==
    IF report_class \in EventClasses
    THEN IF LengthOf(report_class) = None THEN "TypeError"
         ELSE IF length % LengthOf(report_class)[1] = 0 THEN "ok"
         ELSE "AssertionError"
    ELSE IF LengthOf(report_class) # None /\ LengthOf(report_class) = Some(length)
         THEN "ok"
         ELSE "AssertionError"

RECURSIVE process_subreports(_, _, _, _, _)
process_subreports(subreports, event_list, software_name, software_version, end_user) ==
    IF Len(subreports) < 3
    THEN \* struct.error: give up on the rest, keep what was decoded
         Decoded("ok", event_list, software_name, software_version, end_user)
    ELSE
    LET fmt == subreports[1]
        length == UnpackU16(SubSeq(subreports, 2, 3))
        rest == Drop(subreports, 3)
    IN  IF fmt \notin DOMAIN FORMATS
        THEN IF Drop(rest, length) = << >>
             THEN Decoded("ok", event_list, software_name, software_version, end_user)
             ELSE process_subreports(Drop(rest, length), event_list, software_name,
                                     software_version, end_user)
        ELSE
        LET report_class == FORMATS[fmt]
            checked == CheckLength(report_class, length)
        IN  IF checked # "ok"
            THEN Decoded(checked, event_list, software_name, software_version, end_user)
            ELSE IF report_class \notin EventClasses
            THEN \* StringReport.from_bytes unpacks the builtin "bytes", not its
                 \* argument.  (CheckLength lets no such class through.)
                 Decoded("TypeError", event_list, software_name, software_version,
                         end_user)
            ELSE
            LET subreport == Events_from_bytes(report_class, Take(rest, length), << >>)
                after == Drop(rest, length)
                extended == event_list \o subreport.events
            IN  IF subreport.status # "ok"
                THEN Decoded(subreport.status, event_list, software_name,
                             software_version, end_user)
                ELSE IF after # << >> /\ after # << 0 >>
                THEN process_subreports(after, extended, software_name,
                                        software_version, end_user)
                ELSE Decoded("ok", extended, software_name, software_version,
                             end_user)

\* cls.from_bytes(bytestr), called directly: the object's events or value, or
\* the exception.  The loop of a class whose length is None slices
\* "bytestr[:None]" and "bytestr[None:]", the whole string both times: it
\* ends only by an exception of the first event ("no return" otherwise).
\* StringReport.from_bytes unpacks the builtin "bytes", not its argument.
From_bytes(cls, bytestr) ==
    IF cls = "EndOfReport"
    THEN [status |-> IF bytestr = << >> THEN "ok" ELSE "AssertionError",
          events |-> << >>, value |-> << >>]
    ELSE IF cls \notin EventClasses
    THEN [status |-> "TypeError", events |-> << >>, value |-> << >>]
    ELSE IF LengthOf(cls) # None
    THEN LET decoded == Events_from_bytes(cls, bytestr, << >>)
         IN  [status |-> decoded.status,
              events |-> IF decoded.status = "ok" THEN decoded.events ELSE << >>,
              value |-> << >>]
    ELSE IF bytestr = << >>
    THEN [status |-> "ok", events |-> << >>, value |-> << >>]
    ELSE LET first == RepeatedIPEvent_from_bytes(bytestr)
         IN  [status |-> IF first.status = "ok" THEN "no return" ELSE first.status,
              events |-> << >>, value |-> << >>]

\* ------------------------------------------------------------------------
\* RequestHandler.handle, up to the replay test: the stages that read only
\* the datagram and the credential provider
\* ------------------------------------------------------------------------
\* bytes.decode("utf8") succeeds (Python 2: surrogates are let through).
IsContinuation(c) == c >= 128 /\ c <= 191
RECURSIVE Utf8Valid(_)
Utf8Valid(b) ==
    IF b = << >> THEN TRUE
    ELSE LET c == b[1]
         IN  IF c < 128 THEN Utf8Valid(Drop(b, 1))
             ELSE IF c >= 194 /\ c <= 223
             THEN Len(b) >= 2 /\ IsContinuation(b[2]) /\ Utf8Valid(Drop(b, 2))
             ELSE IF c >= 224 /\ c <= 239
             THEN /\ Len(b) >= 3
                  /\ IsContinuation(b[2]) /\ (c = 224 => b[2] >= 160)
                  /\ IsContinuation(b[3])
                  /\ Utf8Valid(Drop(b, 3))
             ELSE IF c >= 240 /\ c <= 244
             THEN /\ Len(b) >= 4
                  /\ IsContinuation(b[2])
                  /\ (c = 240 => b[2] >= 144) /\ (c = 244 => b[2] <= 143)
                  /\ IsContinuation(b[3]) /\ IsContinuation(b[4])
                  /\ Utf8Valid(Drop(b, 4))
             ELSE FALSE

\* The credential provider a subclass supplies: users "a" and "b" have
\* secrets, user "c" has an empty secret, nobody else is known.
UserA == << 97 >>
UserB == << 98 >>
UserC == << 99 >>
SecretA == << 102, 111, 111 >>
SecretB == << 98, 97, 114 >>
get_password(username) ==
    CASE username = UserA -> Some(SecretA)
      [] username = UserB -> Some(SecretB)
      [] username = UserC -> Some(<< >>)
      [] OTHER -> None

\* Faulty variant: the last byte of the footer is not compared.
DigestMatchesNine(password, signature_text, footer) ==
    Take(HmacSha1(password, signature_text), FooterLength - 1)
        = Take(footer, FooterLength - 1)

\* "correct_digest.digest()[:10] != footer" is FALSE
DigestMatches(password, signature_text, footer) ==
    Take(HmacSha1(password, signature_text), FooterLength) = footer

Parsed(stage, username, random8, timestamp, subreports) ==
    [stage |-> stage, username |-> username, random8 |-> random8,
     timestamp |-> timestamp, subreports |-> subreports]
Stopped(stage) == Parsed(stage, << >>, << >>, 0, << >>)

\* Faulty variant: a report without subreport bytes is not turned down.
NoSubreportsNever(subreports) == FALSE

\* "if not subreports"
NoSubreports(subreports) == subreports = << >>

\* handle from "report, footer = ..." to "if not subreports": the stage
\* that ended the handling ("ok" when none did) and the parsed fields.
ParseReport(data) ==
    LET signature_text == DropLast(data, FooterLength)
        footer == TakeLast(data, FooterLength)
    IN  IF Len(signature_text) < 2 THEN Stopped("Invalid report")
        ELSE
        LET version == signature_text[1]
            username_length == signature_text[2]
            username == Take(Drop(signature_text, 2), username_length)
            report == Drop(Drop(signature_text, 2), username_length)
            password == get_password(username)
        IN  IF Len(username) # username_length THEN Stopped("struct.error")
            ELSE IF ~Utf8Valid(username) THEN Stopped("UnicodeDecodeError")
            ELSE IF version # VERSION THEN Stopped("Unknown version")
            ELSE IF password = None \/ password = Some(<< >>)
            THEN Stopped("No password found")
            ELSE IF ~DigestMatches(password[1], signature_text, footer)
            THEN Stopped("Failed password check")
            ELSE IF NoSubreports(Drop(report, 12)) THEN Stopped("Empty report")
            ELSE Parsed("ok", username, Take(report, 8),
                        UnpackU32(SubSeq(report, 9, 12)), Drop(report, 12))

\* Faulty variant: no report is too old.
TooOldNever(time, timestamp) == FALSE

\* "time.time() - timestamp > 120"
TooOld(time, timestamp) == time - timestamp > StaleAfter

\* Faulty variant: a clearing loop that removes nothing.
ExpiredNever(time, reports) == {}

\* Faulty variant: a clearing loop that removes every entry of the past.
ExpiredEarly(time, reports) == {r \in reports : time - r[1] > 0}

\* The entries the clearing loop removes at the given time.
Expired(time, reports) == {r \in reports : time - r[1] > SweepAfter}

\* The exceptions handle lets escape to the server.
Exceptions == {"struct.error", "UnicodeDecodeError", "IndexError", "TypeError"}

\* ------------------------------------------------------------------------
\* Subreport objects and their encodings (__str__)
\* ------------------------------------------------------------------------
\* A subreport object: its class, its events (event classes) and its value
\* (string classes).
SubReport(cls, event_list, value) == [cls |-> cls, events |-> event_list, value |-> value]
EndOfReport == SubReport("EndOfReport", << >>, << >>)
IPv4Events(event_list) == SubReport("IPv4Events", event_list, << >>)
IPv6Events(event_list) == SubReport("IPv6Events", event_list, << >>)
RepeatedIPv4Events(event_list) == SubReport("RepeatedIPv4Events", event_list, << >>)
RepeatedIPv6Events(event_list) == SubReport("RepeatedIPv6Events", event_list, << >>)

\* RepeatedIPEvent(address, event, repeat): IPEvent's checks, then
\* "assert repeat >= 2".
RepeatedIPEvent(address, event, repeat) ==
    IF reportable_ip(address) /\ repeat >= 2
    THEN [status |-> "ok",
          value |-> [address |-> address, event |-> event, repeat |-> Some(repeat)]]
    ELSE [status |-> "AssertionError", value |-> None]

\* StringReport.__init__ of class cls: "assert len(value) < maximum_length".
MaximumLengthOf(cls) == IF cls = "SoftwareName" THEN 64 ELSE 32
StringReport(cls, value) ==
    IF Len(value) < MaximumLengthOf(cls)
    THEN [status |-> "ok", value |-> SubReport(cls, << >>, value)]
    ELSE [status |-> "AssertionError", value |-> None]

Encoded(status, bytes) == [status |-> status, bytes |-> bytes]

\* Faulty variant: positions counted from one.
EventIndexFromOne(event) ==
    IF \E i \in DOMAIN EVENTS : EVENTS[i] = event
    THEN Some(CHOOSE i \in DOMAIN EVENTS : EVENTS[i] = event)
    ELSE None

\* EVENTS.index(event): the zero-based position, or None (ValueError).
EventIndex(event) ==
    IF \E i \in DOMAIN EVENTS : EVENTS[i] = event
    THEN Some((CHOOSE i \in DOMAIN EVENTS : EVENTS[i] = event) - 1)
    ELSE None

\* IPEvent.__str__ and RepeatedIPEvent.__str__
Event_str(event) ==
    LET index == EventIndex(event.event)
    IN  IF index = None THEN Encoded("ValueError", << >>)
        ELSE IF event.repeat = None
        THEN Encoded("ok", event.address.packed \o << index[1] >>)
        ELSE IF event.repeat[1] > 255 THEN Encoded("struct.error", << >>)
        ELSE Encoded("ok", event.address.packed \o << index[1], event.repeat[1] >>)

\* "".join(str(event) for event in events[lo..hi]); the first failure wins
\* (the range is halved to keep the evaluation shallow).
RECURSIVE JoinEvents(_, _, _)
JoinEvents(event_list, lo, hi) ==
    IF lo > hi THEN Encoded("ok", << >>)
    ELSE IF lo = hi THEN Event_str(event_list[lo])
    ELSE LET mid == (lo + hi) \div 2
             head == JoinEvents(event_list, lo, mid)
             tail == JoinEvents(event_list, mid + 1, hi)
         IN  IF head.status # "ok" THEN head
             ELSE IF tail.status # "ok" THEN tail
             ELSE Encoded("ok", head.bytes \o tail.bytes)

\* str(subreport)
SubReport_str(subreport) ==
    LET cls == subreport.cls
    IN  IF cls = "EndOfReport" THEN Encoded("ok", << 0 >>)
        ELSE IF cls \in EventClasses
        THEN IF LengthOf(cls) = None
             THEN \* self.length * len(self.events) with self.length None
                  Encoded("TypeError", << >>)
             ELSE IF LengthOf(cls)[1] * Len(subreport.events) > 65535
             THEN Encoded("struct.error", << >>)
             ELSE LET body == JoinEvents(subreport.events, 1, Len(subreport.events))
                  IN  IF body.status # "ok" THEN body
                      ELSE Encoded("ok",
                               << FormatOf(cls) >>
                               \o PackU16(LengthOf(cls)[1] * Len(subreport.events))
                               \o body.bytes)
        ELSE \* struct.pack("!Bp", format, value): a "p" of count 1 is the
             \* length byte alone, and it holds min(len(value), 0)
             Encoded("ok", << FormatOf(cls), 0 >>)

RECURSIVE JoinSubReports(_, _)
JoinSubReports(subreports, i) ==
    IF i > Len(subreports) THEN Encoded("ok", << >>)
    ELSE LET head == SubReport_str(subreports[i])
             tail == JoinSubReports(subreports, i + 1)
         IN  IF head.status # "ok" THEN head
             ELSE IF tail.status # "ok" THEN tail
             ELSE Encoded("ok", head.bytes \o tail.bytes)

\* ------------------------------------------------------------------------
\* ReportClient.generate_report
\* ------------------------------------------------------------------------
CountOf(subreports, cls) ==
    Cardinality({i \in DOMAIN subreports : subreports[i].cls = cls})

\* struct.pack("!B%dp8BI" % (len(username) + 1), VERSION, username, ...)
Header(version, username, random_bytes, time) ==
    << version, Len(username) >> \o username \o random_bytes \o PackU32(time)

\* header + subreports + hmac(...).digest()[:10]
Signed(text, password) == text \o Take(HmacSha1(password, text), FooterLength)

\* generate_report(subreports, username, password), with the eight random
\* bytes and the clock reading it draws.  The reading int(time.time()) is
\* era * 2^31 + time with 0 <= time < 2^31, so it is below 2^32 exactly when
\* era < 2; struct.pack raises struct.error for an "I" of 2^32 or more.
generate_report(subreports, username, password, random_bytes, era, time) ==
    IF subreports = << >> THEN Encoded("AssertionError", << >>)
    ELSE IF CountOf(subreports, "SoftwareName") > 1
    THEN Encoded("AssertionError", << >>)
    ELSE IF CountOf(subreports, "SoftwareVersion") > 1
    THEN Encoded("AssertionError", << >>)
    ELSE IF /\ CountOf(subreports, "SoftwareVersion") > 0
            /\ CountOf(subreports, "SoftwareName") = 0
    THEN Encoded("AssertionError", << >>)
    ELSE IF ~(Len(username) < 64) THEN Encoded("AssertionError", << >>)
    ELSE IF era >= 2 THEN Encoded("struct.error", << >>)
    ELSE LET low == Header(VERSION, username, random_bytes, time)
             header == [low EXCEPT ![Len(username) + 11] = @ + 128 * era]
             body == JoinSubReports(subreports, 1)
         IN  IF body.status # "ok" THEN body
             ELSE Encoded("ok", Signed(header \o body.bytes, password))

\* ------------------------------------------------------------------------
\* State
\* ------------------------------------------------------------------------
VARIABLES
    now,             \* time.time(), in whole seconds
    ticks,           \* how often the clock has advanced
    recent_reports,  \* ReportServer.recent_reports: a set of <<timestamp, random8>>
    report_count,    \* ReportServer.report_count
    hd,              \* per handler instance: where it is in handle, and its datagram
    sink,            \* the calls of handle_events so far, in order
    received,        \* how many datagrams have been read so far
    client,          \* the ReportClient's construction parameters
    events,          \* ReportClient.events: the buffered subreports
    last,            \* the send_report call just made and what it did
    torn,            \* the ReportClient was torn down (__del__ has run)
    codec            \* the last call of an encoder or decoder and its result

serverVars == << recent_reports, report_count, hd, sink, received >>
clientVars == << client, events, last, torn >>
codecVars == << codec >>
vars == << now, ticks, recent_reports, report_count, hd, sink, received,
          client, events, last, torn, codec >>

Handlers == {1, 2}

\* A handler instance between two requests.  outcome is how its last handle
\* ended: the log line of a discard, the name of an escaped exception, or
\* "handled".  data is the datagram of the last (or the current) handle and
\* parsed the handler's local variables (username, random8, timestamp,
\* subreports); at
\* is the clock when its age was tested, known whether its pair was in
\* recent_reports when it was tested, seq its position among the datagrams
\* read; count is the handler's reading of report_count.
IdleHandler ==
    [pc |-> "idle", data |-> << >>, parsed |-> Stopped("none"),
     outcome |-> "none", at |-> 0,
     known |-> FALSE, seq |-> 0, count |-> 0]

\* Faulty variant: a membership test that never finds the pair.
ReplayedNever(timestamp, random8, reports) == FALSE

\* "(timestamp, random8) in self.server.recent_reports"
Replayed(timestamp, random8, reports) == << timestamp, random8 >> \in reports

\* Faulty variant: a handler that records nothing.
AddedNothing(timestamp, random8, reports) == reports

\* "self.server.recent_reports.add((timestamp, random8))"
Added(timestamp, random8, reports) == reports \cup {<< timestamp, random8 >>}

\* handle from reading the datagram to the replay test; p is
\* ParseReport(data).
Receive(h, data, p) ==
    /\ hd[h].pc = "idle"
    /\ LET outcome ==
               IF p.stage # "ok" THEN p.stage
               ELSE IF TooOld(now, p.timestamp) THEN "Report too old"
               ELSE IF Replayed(p.timestamp, p.random8, recent_reports)
               THEN "Replayed report"
               ELSE "ok"
       IN  hd' = [hd EXCEPT ![h] =
                    [pc |-> IF outcome = "ok" THEN "tested" ELSE "idle",
                     data |-> data,
                     parsed |-> p,
                     outcome |-> IF outcome = "ok" THEN "none" ELSE outcome,
                     at |-> now,
                     known |-> p.stage = "ok"
                               /\ << p.timestamp, p.random8 >> \in recent_reports,
                     seq |-> received + 1,
                     count |-> 0]]
    /\ UNCHANGED << now, ticks, recent_reports, report_count, sink >>
    /\ UNCHANGED << clientVars, codecVars >>

\* A datagram arrives and handler h reads it.
Arrive(h, data, p) ==
    /\ received < MaxReceived
    /\ received' = received + 1
    /\ Receive(h, data, p)

\* A datagram arrives and handler h reads it, on a server that runs for ever:
\* the datagrams are not counted.
Read(h, data, p) ==
    /\ received' = received
    /\ Receive(h, data, p)

\* The branch "if random.random() > 0.99": clear out old reports.
ClearOldReports(h) ==
    /\ hd[h].pc = "tested"
    /\ recent_reports' = recent_reports \ Expired(now, recent_reports)
    /\ hd' = [hd EXCEPT ![h].pc = "cleared"]
    /\ UNCHANGED << now, ticks, report_count, sink, received >>
    /\ UNCHANGED << clientVars, codecVars >>

\* The call of handle_events for the handler's datagram.
SinkCall(h, p, decoded) ==
    [username |-> p.username, events |-> decoded.events,
     software_name |-> decoded.software_name,
     software_version |-> decoded.software_version,
     end_user |-> decoded.end_user,
     report |-> hd[h].data, at |-> hd[h].at, known |-> hd[h].known,
     seq |-> hd[h].seq]

\* recent_reports.add(...), process_subreports and handle_events.
Process(h) ==
    /\ hd[h].pc \in {"tested", "cleared"}
    /\ LET p == hd[h].parsed
           decoded == process_subreports(p.subreports, << >>, None, None, None)
       IN  /\ recent_reports' = Added(p.timestamp, p.random8, recent_reports)
           /\ IF decoded.status = "ok"
              THEN /\ sink' = Append(sink, SinkCall(h, p, decoded))
                   /\ hd' = [hd EXCEPT ![h].pc = "called"]
              ELSE /\ sink' = sink
                   /\ hd' = [hd EXCEPT ![h].pc = "idle",
                                       ![h].outcome =
                                           IF decoded.status = "AssertionError"
                                           THEN "Could not process report"
                                           ELSE decoded.status]
    /\ UNCHANGED << now, ticks, report_count, received >>
    /\ UNCHANGED << clientVars, codecVars >>

\* "self.server.report_count += 1": the read ...
LoadCount(h) ==
    /\ hd[h].pc = "called"
    /\ hd' = [hd EXCEPT ![h].pc = "loaded", ![h].count = report_count]
    /\ UNCHANGED << now, ticks, recent_reports, report_count, sink, received >>
    /\ UNCHANGED << clientVars, codecVars >>

\* ... and the write.
StoreCount(h) ==
    /\ hd[h].pc = "loaded"
    /\ report_count' = hd[h].count + 1
    /\ hd' = [hd EXCEPT ![h].pc = "idle", ![h].outcome = "handled"]
    /\ UNCHANGED << now, ticks, recent_reports, sink, received >>
    /\ UNCHANGED << clientVars, codecVars >>

\* The clock advances by a second or by two minutes.
Tick ==
    /\ ticks < MaxTicks
    /\ ticks' = ticks + 1
    /\ \E d \in {1, StaleAfter} : now' = now + d
    /\ UNCHANGED serverVars
    /\ UNCHANGED << clientVars, codecVars >>

\* A timestamp d seconds later, as the clock sees it.  handle reads a
\* timestamp only in "time.time() - timestamp > 120", so the timestamps older
\* than that are all alike; they are kept at one second older.
Aged(timestamp, d) == Max(timestamp - d, now - StaleAfter - 1)

\* The clock advances by a minute or by more than two minutes, seen from the
\* clock: now stays, and every timestamp the server holds moves into the
\* past.  (A run of any length then has finitely many states.)
Elapse ==
    /\ \E d \in {StaleAfter \div 2, StaleAfter + 1} :
          /\ recent_reports' = {<< Aged(r[1], d), r[2] >> : r \in recent_reports}
          /\ hd' = [h \in Handlers |->
                      IF hd[h].parsed.stage = "ok"
                      THEN [hd[h] EXCEPT !.parsed.timestamp = Aged(@, d)]
                      ELSE hd[h]]
    /\ UNCHANGED << now, ticks, report_count, sink, received >>
    /\ UNCHANGED << clientVars, codecVars >>

\* ------------------------------------------------------------------------
\* ReportClient
\* ------------------------------------------------------------------------
\* ReportClient(timeout, server, username, password, software_name=None,
\* software_version=None, end_user=None)
ReportClient(username, password, software_name, software_version, end_user) ==
    [username |-> username, password |-> password,
     software_name |-> software_name, software_version |-> software_version,
     end_user |-> end_user]

\* No send_report call since the client was made or its buffer last grew.
NoSend ==
    [made |-> FALSE, force |-> FALSE, before |-> << >>, after |-> << >>,
     generated |-> Encoded("none", << >>), calls |-> 0,
     result |-> "none", sent |-> 0]

\* "if self.software_name:" and the like: neither None nor empty.
IsSet(option) == option # None /\ option # Some(<< >>)

\* A list of optional results, in order: the values, or the first failure.
RECURSIVE Collect(_, _)
Collect(results, i) ==
    IF i > Len(results) THEN [status |-> "ok", value |-> << >>]
    ELSE LET tail == Collect(results, i + 1)
         IN  IF results[i] = None THEN tail
             ELSE IF results[i][1].status # "ok"
             THEN [status |-> results[i][1].status, value |-> << >>]
             ELSE IF tail.status # "ok" THEN tail
             ELSE [status |-> "ok", value |-> << results[i][1].value >> \o tail.value]

\* The subreport list send_report builds: the buffer, the configured
\* SoftwareName, SoftwareVersion and EndUser, and EndOfReport.
Assemble(c, buffer) ==
    LET extras ==
            Collect(<< IF IsSet(c.software_name)
                       THEN Some(StringReport("SoftwareName", c.software_name[1]))
                       ELSE None,
                       IF IsSet(c.software_version)
                       THEN Some(StringReport("SoftwareVersion", c.software_version[1]))
                       ELSE None,
                       IF IsSet(c.end_user)
                       THEN Some(StringReport("EndUser", c.end_user[1]))
                       ELSE None >>, 1)
    IN  IF extras.status # "ok" THEN extras
        ELSE [status |-> "ok", value |-> buffer \o extras.value \o << EndOfReport >>]

\* Faulty variant: a threshold of 200 bytes.
WithheldBelow200(force, report) == ~force /\ Len(report) < 200

\* "if not force and len(report) < 400: return"
Withheld(force, report) == ~force /\ Len(report) < 400

\* Faulty variant: any bytes sent count as the whole report.
ConfirmedAny(sent, report) == sent > 0

\* "if sent == len(report)"
Confirmed(sent, report) == sent = Len(report)

\* What socket.sendto(report, ...) returns: the number of bytes it sent.
Sendto(report, sendto) == IF sendto = "all" THEN Len(report) ELSE Len(report) - 1

\* send_report(force), with the random bytes generate_report draws and what
\* socket.sendto does if it is called: it raises "socket.error", or sends
\* "all" of the report, or comes "short".
Generate(c, buffer, random_bytes, time) ==
    LET subreports == Assemble(c, buffer)
    IN  IF subreports.status # "ok" THEN Encoded(subreports.status, << >>)
        ELSE generate_report(subreports.value, c.username, c.password,
                             random_bytes, 0, time)

Send(force, random_bytes, sendto) ==
    \E generated \in {Generate(client, events, random_bytes, now)} :
        LET call == generated.status = "ok" /\ ~Withheld(force, generated.bytes)
            result == IF sendto = "socket.error" THEN "socket.error" ELSE "returned"
            sent == Sendto(generated.bytes, sendto)
            cleared == call /\ result = "returned" /\ Confirmed(sent, generated.bytes)
        IN  /\ events' = IF cleared THEN << >> ELSE events
            /\ last' = [made |-> TRUE, force |-> force, before |-> events,
                        after |-> events', generated |-> generated,
                        calls |-> IF call THEN 1 ELSE 0,
                        result |-> IF call THEN result ELSE "none",
                        sent |-> IF call /\ result = "returned" THEN sent ELSE 0]

\* A call of send_report(force) by the application.
send_report(force, random_bytes, sendto) ==
    /\ ~torn
    /\ Send(force, random_bytes, sendto)
    /\ UNCHANGED << now, ticks, client, torn >>
    /\ UNCHANGED << serverVars, codecVars >>

\* ReportClient.__del__: "if self.events: self.send_report(force=True)".
\* An exception that send_report raises is not propagated out of __del__.
ReportClient_del(random_bytes, sendto) ==
    /\ ~torn
    /\ torn' = TRUE
    /\ IF events # << >>
       THEN Send(TRUE, random_bytes, sendto)
       ELSE events' = events /\ last' = NoSend
    /\ UNCHANGED << now, ticks, client >>
    /\ UNCHANGED << serverVars, codecVars >>

\* The application adds a subreport to the events member.
AddEvents(subreport) ==
    /\ ~torn
    /\ Len(events) < MaxBuffer
    /\ events' = Append(events, subreport)
    /\ last' = NoSend
    /\ UNCHANGED << now, ticks, client, torn >>
    /\ UNCHANGED << serverVars, codecVars >>

\* No encoder or decoder was called.
NoResult == [status |-> "none", events |-> << >>, value |-> << >>]
NoCall ==
    [op |-> "none", input |-> << >>, params |-> << >>,
     result |-> Encoded("none", << >>), decoded |-> NoResult]

Init ==
    /\ now = T0
    /\ ticks = 0
    /\ recent_reports = {}
    /\ report_count = 0
    /\ hd = [h \in Handlers |-> IdleHandler]
    /\ sink = << >>
    /\ received = 0
    /\ client = ReportClient(UserA, SecretA, None, None, None)
    /\ events = << >>
    /\ last = NoSend
    /\ torn = FALSE
    /\ codec = NoCall

\* ------------------------------------------------------------------------
\* Datagrams
\* ------------------------------------------------------------------------
Nonce(k) == << k, k, k, k, k, k, k, k >>

SensorV6 == IPv6Address(<< 42, 0, 20, 80, 64, 1, 0, 0, 0, 0, 0, 0, 0, 0, 0, 1 >>)
AutoSpam == IPEvent(IPv4Address(5, 79, 73, 204), "AUTO-SPAM").value
Greylisted == IPEvent(IPv4Address(95, 211, 160, 147), "GREYLISTED").value

\* One IPv4Events subreport and the end of the report.
GoodBody == JoinSubReports(<< IPv4Events(<< AutoSpam, Greylisted >>), EndOfReport >>, 1).bytes

\* A report as a client holding the user's secret sends it.
Report(username, random_bytes, time, body) ==
    Signed(Header(VERSION, username, random_bytes, time) \o body,
           get_password(username)[1])

\* b with bit k flipped
FlipBit(b, k) == IF (b \div (2 ^ k)) % 2 = 1 THEN b - 2 ^ k ELSE b + 2 ^ k
\* data with bit k of the i-th byte of its footer flipped
FlipFooter(data, i, k) ==
    [data EXCEPT ![Len(data) - FooterLength + i] = FlipBit(@, k)]

GoodA == Report(UserA, Nonce(1), T0, GoodBody)
GoodB == Report(UserB, Nonce(2), T0, GoodBody)

FlippedReports == {FlipFooter(GoodA, i, k) : i \in 1..FooterLength, k \in 0..7}

\* Properly signed reports that a stage of handle must stop.
WrongVersion ==
    {Signed(Header(v, UserA, Nonce(1), T0) \o GoodBody, SecretA) : v \in {1, 3}}
UnknownUser == Signed(Header(VERSION, << 120 >>, Nonce(1), T0) \o GoodBody, SecretA)
EmptySecret == Signed(Header(VERSION, UserC, Nonce(1), T0) \o GoodBody, << >>)
WrongSecret == Signed(Header(VERSION, UserA, Nonce(1), T0) \o GoodBody, SecretB)
EmptyReport == Report(UserA, Nonce(1), T0, << >>)
OldReport == Report(UserA, Nonce(1), T0 - StaleAfter - 1, GoodBody)
\* A declared length that is no multiple of the record width.
BadLength == Report(UserA, Nonce(1), T0, << 1, 0, 4, 5, 79, 73, 204, 0 >>)
\* An event index beyond EVENTS.
BadEvent == Report(UserA, Nonce(1), T0, << 1, 0, 5, 5, 79, 73, 204, 12, 0 >>)
\* Malformed framing.
NoHeader == << 2 >> \o Nonce(0) \o << 0, 0 >>
ShortUsername == Signed(<< VERSION, 40 >> \o UserA, SecretA)
BadUtf8 == Signed(Header(VERSION, << 255 >>, Nonce(1), T0) \o GoodBody, SecretA)

\* Reports with a timestamp in the future.
FutureReport == Report(UserA, Nonce(1), T0 + StaleAfter + 1, GoodBody)

AuthInputs ==
    {GoodA, GoodB, UnknownUser, EmptySecret, WrongSecret, EmptyReport, OldReport,
     BadLength, BadEvent, NoHeader, ShortUsername, BadUtf8,
     FlipFooter(GoodA, 1, 7), FlipFooter(GoodA, FooterLength, 0)}
    \cup WrongVersion

\* Two accepted reports and every single-bit change of their footers.
TagInputs ==
    {GoodA, GoodB} \cup FlippedReports
    \cup {FlipFooter(GoodB, i, k) : i \in 1..FooterLength, k \in 0..7}

\* Reports of this second that pass every check up to the clearing loop and
\* whose subreports do not decode, so that handle records their pairs and
\* the calls of handle_events stay as they are.
LiveInputs ==
    {Report(UserA, Nonce(k), T0, << 1, 0, 4, 5, 79, 73, 204, 0 >>) : k \in {1, 2}}

\* Reports that differ in timestamp, random bytes and user only.
ReplayInputs ==
    {Report(UserA, Nonce(1), T0 + d, GoodBody) : d \in {0 - StaleAfter, 0, 1}}
    \cup {OldReport, FutureReport, GoodB,
          Report(UserA, Nonce(2), T0, GoodBody),
          Report(UserB, Nonce(1), T0, GoodBody)}

\* A subreport on the wire: the tag, the two bytes of the payload's length
\* and the payload.
Preamble(tag, payload) == << tag >> \o PackU16(Len(payload)) \o payload
\* An event on the wire: the address, the number of the kind and, for a
\* repeated event, the repeat count.
Record(event) ==
    event.address.packed \o << EventIndex(event.event)[1] >>
    \o (IF event.repeat = None THEN << >> ELSE << event.repeat[1] >>)

SensorEvent == IPEvent(SensorV6, "VALID-RECIPIENT").value
RepeatedVirus == RepeatedIPEvent(IPv4Address(5, 79, 73, 204), "VIRUS", 2).value
RepeatedVirusV6 == RepeatedIPEvent(SensorV6, "VIRUS", 2).value
WireV4 == Preamble(1, Record(AutoSpam) \o Record(Greylisted))
WireV6 == Preamble(2, Record(SensorEvent))
WireRepeatedV4 == Preamble(3, Record(RepeatedVirus))
WireRepeatedV6 == Preamble(4, Record(RepeatedVirusV6))

\* Subreport streams that hold a subreport of an unknown format (5, 9, 255),
\* each with the events of its known subreports in the order of the stream.
SkipCases ==
    {[body |-> WireV4 \o Preamble(5, << 7, 7, 7 >>) \o WireV6 \o << 0 >>,
      expected |-> << AutoSpam, Greylisted, SensorEvent >>],
     [body |-> Preamble(9, << >>) \o WireV4 \o << 0 >>,
      expected |-> << AutoSpam, Greylisted >>],
     [body |-> WireV6 \o Preamble(255, << 7, 7, 7 >>) \o << 0 >>,
      expected |-> << SensorEvent >>],
     \* the payload of the unknown subreport reads like a subreport's preamble
     [body |-> WireV4 \o Preamble(5, << 1, 0, 4 >>) \o WireV4 \o << 0 >>,
      expected |-> << AutoSpam, Greylisted, AutoSpam, Greylisted >>],
     [body |-> Preamble(5, << 7, 7, 7 >>) \o Preamble(9, << >>) \o WireV4 \o << 0 >>,
      expected |-> << AutoSpam, Greylisted >>],
     [body |-> Preamble(5, << 7, 7, 7 >>) \o WireRepeatedV4 \o << 0 >>,
      expected |-> << RepeatedVirus >>],
     [body |-> WireV4 \o Preamble(5, << 7, 7, 7 >>) \o WireRepeatedV6 \o << 0 >>,
      expected |-> << AutoSpam, Greylisted, RepeatedVirusV6 >>]}
SkipReport(case) == Report(UserA, Nonce(1), T0, case.body)
SkipInputs == {SkipReport(case) : case \in SkipCases}

\* Subreport streams in which a subreport boundary begins with the tag byte
\* 0 and bytes follow it: what stands before the boundary, with the events
\* it holds, and what stands after the zero byte.
StopPrefixes ==
    {[body |-> << >>, expected |-> << >>],
     [body |-> WireV4, expected |-> << AutoSpam, Greylisted >>],
     [body |-> Preamble(5, << 7, 7, 7 >>) \o WireV6, expected |-> << SensorEvent >>],
     [body |-> WireV6 \o Preamble(9, << >>), expected |-> << SensorEvent >>]}
StopSuffixes ==
    {<< >>, << 0 >>, << 5 >>, << 0, 5 >>, << 0, 0 >>,
     << 0, 0 >> \o WireV4 \o << 0 >>,
     << 0, 5 >> \o Record(AutoSpam),
     WireV4 \o << 0 >>,
     Preamble(6, << 114, 112, 115 >>) \o << 0 >>,
     Preamble(5, << 7, 7, 7 >>) \o WireV4 \o << 0 >>}
StopCases ==
    {[body |-> prefix.body \o << 0 >> \o suffix, expected |-> prefix.expected] :
        prefix \in StopPrefixes, suffix \in StopSuffixes}
StopReport(case) == Report(UserA, Nonce(1), T0, case.body)
StopInputs == {StopReport(case) : case \in StopCases}

\* The record widths of the event subreports of formats 1 to 4.
Widths == (1 :> 5) @@ (2 :> 17) @@ (3 :> 6) @@ (4 :> 18)
\* A subreport of a format of 1 to 4 whose declared length is off bytes
\* more than a multiple of the record width (off is 1 to 4).
Misfit(tag, records, off) == Preamble(tag, Repeat(7, records * Widths[tag] + off))
\* Subreport streams with such a subreport, first or after decoded events.
LengthBodies ==
    {before \o Misfit(tag, records, off) \o << 0 >> :
        before \in {<< >>, WireV4}, tag \in DOMAIN Widths,
        records \in {0, 1}, off \in {1, 4}}
LengthInputs == {Report(UserA, Nonce(1), T0, body) : body \in LengthBodies}

\* Subreport streams with well-formed SoftwareName (6), SoftwareVersion (7)
\* and EndUser (8) subreports, each with the values that are last in it.
MetaCases ==
    {[body |-> WireV4 \o Preamble(6, << 114, 112, 115 >>) \o << 0 >>,
      software_name |-> Some(<< 114, 112, 115 >>),
      software_version |-> None, end_user |-> None],
     [body |-> Preamble(6, << 114 >>) \o Preamble(7, << 49, 46, 48 >>)
                 \o WireV4 \o << 0 >>,
      software_name |-> Some(<< 114 >>),
      software_version |-> Some(<< 49, 46, 48 >>), end_user |-> None],
     [body |-> WireV4 \o Preamble(8, << 117 >>) \o << 0 >>,
      software_name |-> None, software_version |-> None,
      end_user |-> Some(<< 117 >>)],
     [body |-> Preamble(6, << 114 >>) \o Preamble(7, << 49 >>)
                 \o Preamble(8, Repeat(117, 31)) \o << 0 >>,
      software_name |-> Some(<< 114 >>), software_version |-> Some(<< 49 >>),
      end_user |-> Some(Repeat(117, 31))],
     \* the same type twice: the later value stands
     [body |-> Preamble(6, << 114 >>) \o WireV4 \o Preamble(6, << 114, 112, 115 >>)
                 \o << 0 >>,
      software_name |-> Some(<< 114, 112, 115 >>),
      software_version |-> None, end_user |-> None]}
MetaReport(case) == Report(UserA, Nonce(1), T0, case.body)
MetaInputs == {MetaReport(case) : case \in MetaCases}

\* ------------------------------------------------------------------------
\* What the application buffers and how its client is set up
\* ------------------------------------------------------------------------
NameOptions == {None, Some(<< 114, 112, 115 >>)}
VersionOptions == {None, Some(<< 49 >>)}
EndUserOptions == {None, Some(<< 117 >>)}
Clients ==
    {c \in {ReportClient(UserA, SecretA, n, v, u) :
                n \in NameOptions, v \in VersionOptions, u \in EndUserOptions} :
        c.end_user # None => c.software_version # None}

Batch == IPv4Events(Repeat(AutoSpam, BatchSize))
Buffered ==
    {IPv4Events(<< AutoSpam, Greylisted >>),
     Batch,
     IPv6Events(<< IPEvent(SensorV6, "VALID-RECIPIENT").value >>),
     RepeatedIPv6Events(<< RepeatedIPEvent(SensorV6, "VIRUS", 2).value >>)}

\* ------------------------------------------------------------------------
\* Specifications
\* ------------------------------------------------------------------------
\* Each datagram of a set with its ParseReport, which is computed once.
Requests(inputs) == {[data |-> data, parsed |-> ParseReport(data)] : data \in inputs}

Serve(h, requests) ==
    \/ \E r \in requests : Arrive(h, r.data, r.parsed)
    \/ ClearOldReports(h)
    \/ Process(h)
    \/ LoadCount(h)
    \/ StoreCount(h)

\* One handler at a time (socketserver.UDPServer), reading datagrams that
\* fail at each stage of handle.
AuthRequests == Requests(AuthInputs)
NextAuth == Serve(1, AuthRequests) \/ Tick
SpecAuth == Init /\ [][NextAuth]_vars

\* One handler at a time, reading reports and the same reports with one bit
\* of the footer changed, all within the same second.
TagRequests == Requests(TagInputs)
NextTag == Serve(1, TagRequests)
SpecTag == Init /\ [][NextTag]_vars

\* One handler at a time, reading the datagrams of AuthInputs and reports
\* of a wrong version that also fail a later check: of an unknown user, of a
\* user without a secret, and signed with another user's secret.
OrderInputs ==
    AuthInputs
    \cup {Signed(Header(3, << 120 >>, Nonce(1), T0) \o GoodBody, SecretA),
          Signed(Header(3, UserC, Nonce(1), T0) \o GoodBody, << >>),
          Signed(Header(1, UserA, Nonce(1), T0) \o GoodBody, SecretB)}
OrderRequests == Requests(OrderInputs)
NextOrder == Serve(1, OrderRequests) \/ Tick
SpecOrder == Init /\ [][NextOrder]_vars

\* One handler at a time, reading properly signed reports.
ReplayRequests == Requests(ReplayInputs)
NextReplay == Serve(1, ReplayRequests) \/ Tick
SpecReplay == Init /\ [][NextReplay]_vars

\* One handler at a time, reading reports that hold a subreport of an
\* unknown format.
SkipRequests == Requests(SkipInputs)
NextSkip == Serve(1, SkipRequests)
SpecSkip == Init /\ [][NextSkip]_vars

\* One handler at a time, reading reports with a subreport of a wrong
\* length, and reports that are accepted.
LengthRequests == Requests(LengthInputs \cup {GoodA, GoodB})
NextLength == Serve(1, LengthRequests)
SpecLength == Init /\ [][NextLength]_vars

\* One handler at a time, reading reports with bytes after a zero tag.
StopRequests == Requests(StopInputs)
NextStop == Serve(1, StopRequests)
SpecStop == Init /\ [][NextStop]_vars

\* One handler at a time, reading reports with SoftwareName, SoftwareVersion
\* and EndUser subreports, and reports without.
MetaRequests == Requests(MetaInputs \cup {GoodA, GoodB})
NextMeta == Serve(1, MetaRequests) \/ Tick
SpecMeta == Init /\ [][NextMeta]_vars

\* One handler at a time on a server that runs for ever: reports keep
\* arriving and time passes.
LiveRequests == Requests(LiveInputs)
NextLive ==
    \/ \E r \in LiveRequests : Read(1, r.data, r.parsed)
    \/ ClearOldReports(1)
    \/ Process(1)
    \/ Elapse
SpecLive == Init /\ [][NextLive]_vars /\ WF_vars(Elapse)

\* The application's client: events are buffered and send_report is called.
InitClient ==
    /\ now = T0
    /\ ticks = 0
    /\ recent_reports = {}
    /\ report_count = 0
    /\ hd = [h \in Handlers |-> IdleHandler]
    /\ sink = << >>
    /\ received = 0
    /\ client \in Clients
    /\ events = << >>
    /\ last = NoSend
    /\ torn = FALSE
    /\ codec = NoCall

NextClient ==
    \/ \E subreport \in Buffered : AddEvents(subreport)
    \/ \E force \in BOOLEAN, random_bytes \in {Nonce(1), Nonce(2)},
          sendto \in {"socket.error", "all", "short"} :
            send_report(force, random_bytes, sendto)

SpecClient == InitClient /\ [][NextClient]_vars

\* A direct call of the static method generate_report(subreports, username,
\* password), the first call of an encoder in the behaviour.
Call_generate_report(subreports, username, password, random_bytes, era, time) ==
    /\ codec = NoCall
    /\ codec' = [op |-> "generate_report", input |-> subreports,
                 params |-> [username |-> username, password |-> password,
                             random_bytes |-> random_bytes,
                             era |-> era, time |-> time],
                 result |-> generate_report(subreports, username, password,
                                            random_bytes, era, time),
                 decoded |-> NoResult]
    /\ UNCHANGED << now, ticks >>
    /\ UNCHANGED << serverVars, clientVars >>

\* The lists of at most n of the given elements.
RECURSIVE ListsOf(_, _)
ListsOf(elements, n) ==
    IF n = 0 THEN {<< >>}
    ELSE LET shorter == ListsOf(elements, n - 1)
         IN  shorter \cup {Append(list, e) : list \in shorter, e \in elements}

\* Subreports of every kind, as an application may build them.
Assorted ==
    {IPv4Events(<< AutoSpam, Greylisted >>),
     RepeatedIPv6Events(<< RepeatedIPEvent(SensorV6, "VIRUS", 2).value >>),
     StringReport("SoftwareName", << 114, 112, 115 >>).value,
     StringReport("SoftwareVersion", << 49 >>).value,
     StringReport("EndUser", << 117 >>).value,
     EndOfReport}
AssortedLists == ListsOf(Assorted, MaxList)

\* generate_report called directly, and a client whose application also
\* buffers SoftwareName and SoftwareVersion subreports.  generate_report is
\* a static method and reads nothing of the client, so the direct call is
\* made before the client is used.
NextGenerate ==
    \/ /\ events = << >> /\ ~last.made
       /\ \E subreports \in AssortedLists :
             Call_generate_report(subreports, UserA, SecretA, Nonce(1), 0, now)
    \/ \E subreport \in Assorted \ {EndOfReport} : AddEvents(subreport)
    \/ \E force \in BOOLEAN, sendto \in {"socket.error", "all"} :
          send_report(force, Nonce(1), sendto)
SpecGenerate == Init /\ [][NextGenerate]_vars

\* str(subreport), called directly: the first call of the behaviour.
Call_str(subreport) ==
    /\ codec = NoCall
    /\ codec' = [op |-> "str", input |-> subreport, params |-> << >>,
                 result |-> SubReport_str(subreport), decoded |-> NoResult]
    /\ UNCHANGED << now, ticks >>
    /\ UNCHANGED << serverVars, clientVars >>

\* cls.from_bytes(payload) for the payload of the bytes that str returned:
\* what follows the tag and the two bytes of the length.
Call_from_bytes ==
    /\ codec.op = "str"
    /\ codec.result.status = "ok"
    /\ codec' = [codec EXCEPT
                    !.op = "from_bytes",
                    !.decoded = From_bytes(codec.input.cls, Drop(codec.result.bytes, 3))]
    /\ UNCHANGED << now, ticks >>
    /\ UNCHANGED << serverVars, clientVars >>

\* The values of the results that are objects.
Built(results) == {r.value : r \in {q \in results : q.status = "ok"}}

SensorV4 == IPv4Address(1, 0, 0, 1)
OtherV6 == IPv6Address(<< 38, 7, 248, 176, 0, 0, 0, 0, 0, 0, 0, 0, 0, 0, 0, 255 >>)
Kinds == {EVENTS[i] : i \in DOMAIN EVENTS}
EventsV4 == Built({IPEvent(a, e) : a \in {IPv4Address(5, 79, 73, 204), SensorV4}, e \in Kinds})
EventsV6 == Built({IPEvent(a, e) : a \in {SensorV6, OtherV6}, e \in Kinds})
\* The events of the first and of the last kind.
Outer(event_set) == {e \in event_set : e.event \in {EVENTS[1], EVENTS[Len(EVENTS)]}}
Counts == {2, 9, 255}
RepeatedV4 ==
    Built({RepeatedIPEvent(a, e, n) :
             a \in {IPv4Address(5, 79, 73, 204)}, e \in {"GREYLISTED", "VIRUS"},
             n \in Counts})
RepeatedV6 ==
    Built({RepeatedIPEvent(a, e, n) :
             a \in {SensorV6}, e \in {"GREYLISTED", "VIRUS"}, n \in Counts})
Strings ==
    Built({StringReport(cls, value) :
             cls \in {"SoftwareName", "SoftwareVersion", "EndUser"},
             value \in {<< 114 >>, << 114, 112, 115 >>, << 49, 46, 48 >>}})

\* The subreports that are encoded and decoded again: one event of every
\* kind, and lists of events of a few kinds.
Encodable ==
    {IPv4Events(<< e >>) : e \in EventsV4}
    \cup {IPv6Events(<< e >>) : e \in EventsV6}
    \cup {IPv4Events(list) : list \in ListsOf(Outer(EventsV4), MaxEvents)}
    \cup {IPv6Events(list) : list \in ListsOf(Outer(EventsV6), MaxEvents)}
    \cup {RepeatedIPv4Events(list) : list \in ListsOf(RepeatedV4, MaxEvents)}
    \cup {RepeatedIPv6Events(list) : list \in ListsOf(RepeatedV6, MaxEvents)}
    \cup Strings

NextCodec ==
    \/ \E subreport \in Encodable : Call_str(subreport)
    \/ Call_from_bytes
SpecCodec == Init /\ [][NextCodec]_vars

\* The application makes an event (a repeated event if a repeat count is
\* given) and, unless the constructor raises, adds a subreport that holds it
\* to the events member.
AddEvent(address, event, repeat) ==
    /\ ~torn
    /\ Len(events) < MaxBuffer
    /\ LET made == IF repeat = None THEN IPEvent(address, event)
                   ELSE RepeatedIPEvent(address, event, repeat[1])
           cls == IF repeat = None
                  THEN (IF address.version = 4 THEN "IPv4Events" ELSE "IPv6Events")
                  ELSE (IF address.version = 4 THEN "RepeatedIPv4Events"
                        ELSE "RepeatedIPv6Events")
       IN  /\ codec' = [op |-> "IPEvent", input |-> address,
                        params |-> [event |-> event, repeat |-> repeat],
                        result |-> Encoded(made.status, << >>),
                        decoded |-> NoResult]
           /\ IF made.status = "ok"
              THEN /\ events' = Append(events, SubReport(cls, << made.value >>, << >>))
                   /\ last' = NoSend
              ELSE UNCHANGED << events, last >>
    /\ UNCHANGED << now, ticks, client, torn >>
    /\ UNCHANGED serverVars

\* Addresses an application may come by: of every kind that reportable_ip
\* turns down, and global ones.
Zeros(n) == Repeat(0, n)
Candidates ==
    {IPv4Address(10, 0, 0, 1), IPv4Address(172, 16, 0, 1),
     IPv4Address(192, 168, 1, 1), IPv4Address(127, 0, 0, 1),
     IPv4Address(224, 0, 0, 1), IPv4Address(0, 0, 0, 0),
     IPv4Address(169, 254, 1, 1), IPv4Address(240, 0, 0, 1),
     IPv4Address(5, 79, 73, 204),
     IPv6Address(Zeros(15) \o << 1 >>), IPv6Address(Zeros(16)),
     IPv6Address(<< 255, 2 >> \o Zeros(13) \o << 1 >>),
     IPv6Address(<< 254, 128 >> \o Zeros(13) \o << 1 >>),
     IPv6Address(<< 254, 192 >> \o Zeros(13) \o << 1 >>),
     IPv6Address(<< 252 >> \o Zeros(14) \o << 1 >>),
     SensorV6}

\* An application that makes events of the addresses it comes by, and sends.
NextEligible ==
    \/ \E address \in Candidates, repeat \in {None, Some(2)} :
          AddEvent(address, "AUTO-SPAM", repeat)
    \/ \E force \in BOOLEAN, sendto \in {"socket.error", "all"} :
          send_report(force, Nonce(1), sendto)
SpecEligible == Init /\ [][NextEligible]_vars

\* An application that makes events and repeated events of any kind and
\* with any repeat count for one reportable address, and sends.
RepeatCounts == {None, Some(0), Some(1), Some(2), Some(255), Some(256)}
NextKinds ==
    \/ \E event \in {"RESERVED", "AUTO-SPAM"}, repeat \in RepeatCounts :
          AddEvent(IPv4Address(5, 79, 73, 204), event, repeat)
    \/ \E force \in BOOLEAN, sendto \in {"socket.error", "all"} :
          send_report(force, Nonce(1), sendto)
SpecKinds == Init /\ [][NextKinds]_vars

\* cls(value) for a class of StringReport, called directly: the first call of
\* the behaviour.
Call_StringReport(cls, value) ==
    /\ codec = NoCall
    /\ codec' = [op |-> "StringReport", input |-> value, params |-> [cls |-> cls],
                 result |-> Encoded(StringReport(cls, value).status, << >>),
                 decoded |-> NoResult]
    /\ UNCHANGED << now, ticks >>
    /\ UNCHANGED << serverVars, clientVars >>

\* Values and user names of the lengths around the limits, and clock
\* readings era * 2^31 + time below and from 2^32.
Lengths == {0, 1, 30, 31, 32, 33, 62, 63, 64, 65}
Eras == {0, 1, 2, 3}
Readings == {0, T0, 2147483647}
NextFields ==
    \/ \E cls \in {"SoftwareName", "SoftwareVersion", "EndUser"}, n \in Lengths :
          Call_StringReport(cls, Repeat(97, n))
    \/ \E subreports \in {<< IPv4Events(<< AutoSpam >>), EndOfReport >>,
                          << EndOfReport >>},
          n \in {0, 1, 63, 64}, era \in Eras, time \in Readings :
          Call_generate_report(subreports, Repeat(97, n), SecretA, Nonce(1),
                               era, time)
SpecFields == Init /\ [][NextFields]_vars

\* The report of the last send_report call, which the transport took
\* whole, arrives at the server as it was sent and handler h reads it.
Deliver(h) ==
    /\ last.made
    /\ last.calls = 1
    /\ last.result = "returned"
    /\ last.sent = Len(last.generated.bytes)
    /\ Arrive(h, last.generated.bytes, ParseReport(last.generated.bytes))

\* A client without software name, software version and end user whose
\* application buffers IPv4Events and IPv6Events subreports, and the server
\* that its reports are sent to.  The application is followed until the
\* first of its reports arrives; that report may arrive again.
Plain ==
    {IPv4Events(<< AutoSpam, Greylisted >>),
     IPv6Events(<< SensorEvent, IPEvent(SensorV6, "RESERVED").value >>)}
NextEndToEnd ==
    \/ /\ received = 0
       /\ \E subreport \in Plain : AddEvents(subreport)
    \/ /\ received = 0
       /\ \E force \in BOOLEAN, sendto \in {"socket.error", "all"} :
             send_report(force, Nonce(1), sendto)
    \/ Deliver(1)
    \/ ClearOldReports(1)
    \/ Process(1)
    \/ LoadCount(1)
    \/ StoreCount(1)
    \/ Tick
SpecEndToEnd == Init /\ [][NextEndToEnd]_vars

\* The application's client until it is torn down.
NextTeardown ==
    \/ NextClient
    \/ \E random_bytes \in {Nonce(1)}, sendto \in {"socket.error", "all", "short"} :
          ReportClient_del(random_bytes, sendto)
SpecTeardown == InitClient /\ [][NextTeardown]_vars

\* Handler instances of one server running concurrently (handle takes no
\* lock, and nothing in it keeps two instances apart), reading properly
\* signed reports.
ConcRequests == Requests({GoodA, GoodB})
NextConc == (\E h \in Handlers : Serve(h, ConcRequests)) \/ Tick
SpecConc == Init /\ [][NextConc]_vars

\* ------------------------------------------------------------------------
\* Properties of RequestHandler.handle
\* ------------------------------------------------------------------------
\* The datagrams of AuthInputs that pass every check of handle that reads
\* nothing but the datagram and the credential provider, stated on the bytes:
\* version 2, a non-empty secret for the user, the last ten bytes equal to
\* the first ten of the HMAC of the rest, at least one byte after the
\* timestamp, and subreports that decode.
WellFormed(data) ==
    LET text == DropLast(data, 10)
        name == SubSeq(text, 3, 2 + text[2])
        secret == get_password(name)
        body == SubSeq(text, 15 + text[2], Len(text))
    IN  /\ Len(data) >= 12
        /\ text[1] = 2
        /\ Len(text) >= 2 + text[2]
        /\ secret # None
        /\ secret[1] # << >>
        /\ TakeLast(data, 10) = Take(HmacSha1(secret[1], text), 10)
        /\ Len(body) >= 1
        /\ process_subreports(body, << >>, None, None, None).status = "ok"
AuthWellFormed == {data \in AuthInputs : WellFormed(data)}

\* The timestamp a datagram carries: the four bytes after the random bytes.
TimestampOf(data) == UnpackU32(SubSeq(data, 11 + data[2], 14 + data[2]))

\* C1: handle_events is called for a report only if the report has version
\* 2, its user has a non-empty secret, its last ten bytes are the first ten
\* of the HMAC-SHA1 of the bytes before them, at least one subreport byte
\* follows the timestamp, the timestamp was not more than 120 seconds old
\* when tested, its (timestamp, random bytes) pair was not in recent_reports
\* when tested, and its subreports were decoded without an abort.
C1_SinkOnlyForAcceptedReports ==
    \A i \in DOMAIN sink :
        /\ sink[i].report \in AuthWellFormed
        /\ ~(sink[i].at - TimestampOf(sink[i].report) > 120)
        /\ ~sink[i].known

\* A report was handled to the end, and reports were stopped before.
C1_Witness ==
    /\ sink # << >>
    /\ hd[1].outcome = "handled"
    /\ received > Len(sink)

\* Every change of one bit in the footer of GoodA and of GoodB.
FlippedTags ==
    {FlipFooter(data, i, k) : data \in {GoodA, GoodB}, i \in 1..10, k \in 0..7}

\* C5: a report that differs from an accepted report in one bit of its
\* ten-byte footer is discarded at the digest check: handle_events is never
\* called for it.
C5_FlippedTagDiscarded ==
    /\ \A i \in DOMAIN sink : sink[i].report \notin FlippedTags
    /\ \A h \in Handlers :
          hd[h].data \in FlippedTags =>
              hd[h].pc = "idle" /\ hd[h].outcome = "Failed password check"

\* The first datagram read was GoodA with a bit of its footer changed, at a
\* time and in a state where GoodA itself is accepted; it was discarded, and
\* GoodA, read next, went to the sink.
C5_Witness ==
    /\ received = 2
    /\ Len(sink) = 1
    /\ sink[1].report = GoodA
    /\ sink[1].seq = 2
    /\ report_count = 1

\* The pair a datagram is remembered by: its timestamp and its random bytes.
PairOf(data) == << TimestampOf(data), SubSeq(data, 3 + data[2], 10 + data[2]) >>

\* C2: of the handlers that process byte-identical valid reports at the same
\* time at most one calls handle_events, whatever the order of their steps:
\* no two calls of handle_events are for the same (timestamp, random bytes).
C2_AtMostOneSinkCall ==
    \A i, j \in DOMAIN sink :
        PairOf(sink[i].report) = PairOf(sink[j].report) => i = j

\* C3: a handler that has taken a valid, fresh report whose pair an earlier
\* report brought to handle_events has discarded it as a replay, without a
\* call of handle_events and without counting it; a valid, fresh report
\* whose pair was not known went to handle_events exactly once.
C3_SecondIsReplay ==
    LET p == hd[1].parsed
        earlier == {i \in DOMAIN sink : sink[i].seq < hd[1].seq}
        own == {i \in DOMAIN sink : sink[i].seq = hd[1].seq}
        fresh == p.stage = "ok" /\ ~(hd[1].at - p.timestamp > 120)
        again == \E i \in earlier :
                     PairOf(sink[i].report) = << p.timestamp, p.random8 >>
    IN  /\ hd[1].pc = "idle" /\ fresh /\ again
            => /\ hd[1].outcome = "Replayed report"
               /\ own = {}
               /\ report_count = Cardinality(earlier)
        /\ hd[1].pc = "idle" /\ fresh /\ ~again
            => /\ hd[1].outcome = "handled"
               /\ Cardinality(own) = 1
               /\ report_count = Cardinality(earlier) + 1

\* The report accepted first was read again a second later and discarded.
C3_Witness ==
    /\ hd[1].pc = "idle"
    /\ hd[1].outcome = "Replayed report"
    /\ hd[1].at > T0
    /\ Len(sink) = 1
    /\ PairOf(sink[1].report) = << hd[1].parsed.timestamp, hd[1].parsed.random8 >>
    /\ hd[1].data = sink[1].report
    /\ report_count = 1

\* C4: no report whose timestamp is more than 120 seconds from the clock, in
\* the past or in the future, reaches handle_events or recent_reports.
C4_DiscardsBothDirections ==
    /\ \A i \in DOMAIN sink :
          /\ sink[i].at - TimestampOf(sink[i].report) <= 120
          /\ TimestampOf(sink[i].report) - sink[i].at <= 120
    /\ \A r \in recent_reports : r[1] - now <= 120

\* The step of handler h is the clearing loop.
IsSweep(h) == hd[h].pc = "tested" /\ hd'[h].pc = "cleared"

\* C6: the clearing loop removes the entries whose timestamp is more than
\* 120 seconds before the clock and no others; no step removes an entry that
\* is within the 120 seconds; every pair that went to handle_events and is
\* within the 120 seconds is in recent_reports; and a valid, fresh report
\* read while its pair is in recent_reports is discarded as a replay.
C6_SweepExact ==
    [][/\ \A h \in Handlers :
             IsSweep(h) =>
                 recent_reports' = {r \in recent_reports : ~(now - r[1] > 120)}
       /\ \A r \in recent_reports :
             ~(now' - r[1] > 120) => r \in recent_reports'
       /\ \A i \in DOMAIN sink' :
             ~(now' - TimestampOf(sink'[i].report) > 120)
                 => PairOf(sink'[i].report) \in recent_reports'
       /\ \A h \in Handlers :
             LET p == hd'[h].parsed
             IN  /\ received' = received + 1
                 /\ hd'[h].seq = received'
                 /\ p.stage = "ok"
                 /\ ~(now - p.timestamp > 120)
                 /\ << p.timestamp, p.random8 >> \in recent_reports
                 => /\ hd'[h].pc = "idle"
                    /\ hd'[h].outcome = "Replayed report"
                    /\ sink' = sink
      ]_vars

\* The clearing loop has just removed the pair of a report that went to
\* handle_events and kept the pair of another.
C6_Witness ==
    /\ hd[1].pc = "cleared"
    /\ \E i \in DOMAIN sink : PairOf(sink[i].report) \notin recent_reports
    /\ \E i \in DOMAIN sink : PairOf(sink[i].report) \in recent_reports

\* ------------------------------------------------------------------------
\* Properties of ReportClient.send_report
\* ------------------------------------------------------------------------
\* C8: a send_report call without force whose report, tag included, is
\* shorter than 400 bytes makes no call of the transport and leaves the
\* events buffer as it was.
C8_ShortReportWithheld ==
    /\ last.made
    /\ ~last.force
    /\ last.generated.status = "ok"
    /\ Len(last.generated.bytes) < 400
    => /\ last.calls = 0
       /\ last.after = last.before
       /\ events = last.before

\* A report of 390 to 399 bytes was withheld and its events are still
\* buffered.
C8_Witness ==
    /\ last.made
    /\ ~last.force
    /\ last.generated.status = "ok"
    /\ Len(last.generated.bytes) >= 390
    /\ Len(last.generated.bytes) < 400
    /\ last.calls = 0
    /\ events # << >>

\* The checks of report assembly pass for what the client is set up with:
\* the values are short enough, a version comes with a name, and the user
\* name is shorter than 64 bytes.  (The buffer holds event subreports only.)
AssemblyPasses(c) ==
    /\ IsSet(c.software_name) => Len(c.software_name[1]) < 64
    /\ IsSet(c.software_version) => Len(c.software_version[1]) < 32
    /\ IsSet(c.end_user) => Len(c.end_user[1]) < 32
    /\ IsSet(c.software_version) => IsSet(c.software_name)
    /\ Len(c.username) < 64

\* C9: a send_report call with force, when the checks of report assembly
\* pass, calls the transport once, with the generated report, whatever the
\* size of the report.
C9_ForcedAlwaysSent ==
    /\ last.made
    /\ last.force
    /\ AssemblyPasses(client)
    => /\ last.generated.status = "ok"
       /\ last.calls = 1

\* The encoding of the buffered subreports, which follows the 15 bytes of
\* the header of the client's reports.
BufferBytes(buffer) == JoinSubReports(buffer, 1).bytes

\* C10: a send_report call leaves the events buffer as it was or empties
\* it; it empties a buffer only if the transport was called and returned the
\* length of the report, and that report holds every subreport that was
\* buffered; after a transport error or a partial send the buffer is as it
\* was.
C10_BufferKeptUntilConfirmed ==
    last.made =>
        /\ events = last.after
        /\ last.after = last.before \/ last.after = << >>
        /\ last.after # last.before =>
              /\ last.calls = 1
              /\ last.result = "returned"
              /\ last.sent = Len(last.generated.bytes)
              /\ SubSeq(last.generated.bytes, 16, 15 + Len(BufferBytes(last.before)))
                     = BufferBytes(last.before)
        /\ last.result = "socket.error" => last.after = last.before
        /\ last.calls = 1 /\ last.sent # Len(last.generated.bytes)
              => last.after = last.before

\* Two buffered subreports were sent in one report, the transport returned
\* the length of the report, and the buffer is empty.
C10_Witness ==
    /\ last.made
    /\ Len(last.before) = 2
    /\ events = << >>
    /\ last.calls = 1
    /\ last.sent = Len(last.generated.bytes)

\* C11: when a client is torn down with a buffer that is not empty, a
\* send_report call with force is made and, the checks of report assembly
\* passing, the transport is called once with a report that holds the
\* buffered subreports; when it is torn down with an empty buffer, no
\* transport call is made.
C11_TeardownFlushes ==
    torn =>
        /\ last.made => last.force /\ last.before # << >>
        /\ ~last.made => events = << >> /\ last.calls = 0
        /\ last.made /\ AssemblyPasses(client)
              => /\ last.generated.status = "ok"
                 /\ last.calls = 1
                 /\ SubSeq(last.generated.bytes, 16, 15 + Len(BufferBytes(last.before)))
                        = BufferBytes(last.before)

\* The list is one that generate_report rejects: it is empty, or holds more
\* than one SoftwareName or more than one SoftwareVersion, or a
\* SoftwareVersion and no SoftwareName.
Rejected(subreports) ==
    \/ subreports = << >>
    \/ CountOf(subreports, "SoftwareName") > 1
    \/ CountOf(subreports, "SoftwareVersion") > 1
    \/ CountOf(subreports, "SoftwareVersion") > 0
           /\ CountOf(subreports, "SoftwareName") = 0

\* C12: generate_report fails and produces no bytes for every rejected list
\* and produces a report for every other list; a send_report call whose
\* list is rejected makes no transport call and leaves the buffer as it was.
C12_AssemblyValidation ==
    /\ codec.op = "generate_report" =>
          IF Rejected(codec.input)
          THEN codec.result.status # "ok" /\ codec.result.bytes = << >>
          ELSE codec.result.status = "ok" /\ codec.result.bytes # << >>
    /\ last.made /\ Rejected(Assemble(client, last.before).value) =>
          /\ last.generated.status # "ok"
          /\ last.calls = 0
          /\ last.after = last.before
          /\ events = last.before

\* ------------------------------------------------------------------------
\* Encoding and decoding of subreports
\* ------------------------------------------------------------------------
\* The zero-based position of an event kind in the table of kinds.
KindNumber(kind) == (CHOOSE i \in 1..12 : EVENTS[i] = kind) - 1

\* C13: the encoding of an IPv4Events or IPv6Events subreport of valid
\* events is the tag byte (1 or 2), the two bytes of (5 or 17) times the
\* number of events, big end first, and for each event in order its address
\* bytes and the number of its kind; from_bytes of what follows the first
\* three bytes gives the same (address, kind) pairs in the same order.
C13_IPEventsRoundTrip ==
    codec.op \in {"str", "from_bytes"}
    /\ codec.input.cls \in {"IPv4Events", "IPv6Events"}
    => LET x == codec.input.events
           n == Len(x)
           width == IF codec.input.cls = "IPv4Events" THEN 5 ELSE 17
           bytes == codec.result.bytes
       IN  /\ codec.result.status = "ok"
           /\ Len(bytes) = 3 + width * n
           /\ bytes[1] = (IF codec.input.cls = "IPv4Events" THEN 1 ELSE 2)
           /\ bytes[2] * 256 + bytes[3] = width * n
           /\ \A i \in 1..n :
                 SubSeq(bytes, 4 + (i - 1) * width, 3 + i * width)
                     = x[i].address.packed \o << KindNumber(x[i].event) >>
           /\ codec.op = "from_bytes" =>
                 /\ codec.decoded.status = "ok"
                 /\ Len(codec.decoded.events) = n
                 /\ \A i \in 1..n :
                       /\ codec.decoded.events[i].address = x[i].address
                       /\ codec.decoded.events[i].event = x[i].event

\* An IPv6Events subreport of two different events was encoded and decoded.
C13_Witness ==
    /\ codec.op = "from_bytes"
    /\ codec.input.cls = "IPv6Events"
    /\ Len(codec.input.events) = 2
    /\ codec.input.events[1].address # codec.input.events[2].address
    /\ codec.input.events[1].event # codec.input.events[2].event
    /\ codec.decoded.events = codec.input.events

\* C14: a RepeatedIPv4Events or RepeatedIPv6Events subreport of valid
\* repeated events (repeat counts 2 to 255) is encoded, and from_bytes of the
\* payload gives the same (address, kind, repeat count) triples in the same
\* order.
C14_RepeatedRoundTrip ==
    codec.op \in {"str", "from_bytes"}
    /\ codec.input.cls \in {"RepeatedIPv4Events", "RepeatedIPv6Events"}
    => LET x == codec.input.events
       IN  /\ codec.result.status = "ok"
           /\ codec.op = "from_bytes" =>
                 /\ codec.decoded.status = "ok"
                 /\ Len(codec.decoded.events) = Len(x)
                 /\ \A i \in 1..Len(x) :
                       /\ codec.decoded.events[i].address = x[i].address
                       /\ codec.decoded.events[i].event = x[i].event
                       /\ codec.decoded.events[i].repeat = x[i].repeat

\* C15: the encoding of a SoftwareName, SoftwareVersion or EndUser subreport
\* with a valid value is the tag byte (6, 7 or 8), the two bytes of the
\* length of the value, big end first, and the value; from_bytes of the
\* payload gives a subreport with the same value.
C15_StringRoundTrip ==
    codec.op \in {"str", "from_bytes"}
    /\ codec.input.cls \in {"SoftwareName", "SoftwareVersion", "EndUser"}
    => LET value == codec.input.value
           tag == CASE codec.input.cls = "SoftwareName" -> 6
                    [] codec.input.cls = "SoftwareVersion" -> 7
                    [] OTHER -> 8
       IN  /\ codec.result.status = "ok"
           /\ codec.result.bytes
                 = << tag, Len(value) \div 256, Len(value) % 256 >> \o value
           /\ codec.op = "from_bytes" =>
                 /\ codec.decoded.status = "ok"
                 /\ codec.decoded.value = value

\* ------------------------------------------------------------------------
\* Decoding of subreports by process_subreports
\* ------------------------------------------------------------------------
\* The events that the known subreports of a report of SkipInputs hold.
ExpectedOf(data) == (CHOOSE case \in SkipCases : SkipReport(case) = data).expected

\* C16: a valid, fresh report that is no replay and holds a subreport of an
\* unknown format goes to handle_events, with the events of all its known
\* event subreports, those before and those after the unknown one, in the
\* order of the stream.
C16_UnknownFormatSkipped ==
    /\ hd[1].pc = "idle"
    /\ hd[1].data \in SkipInputs
    /\ ~hd[1].known
    => /\ hd[1].outcome = "handled"
       /\ \E i \in DOMAIN sink :
             /\ sink[i].seq = hd[1].seq
             /\ sink[i].events = ExpectedOf(hd[1].data)

\* C17: a valid, fresh report that is no replay and holds a subreport of
\* format 1, 2, 3 or 4 whose declared length is no multiple of 5, 17, 6 or
\* 18 is given up as a whole: handle returns after logging "Could not
\* process report", handle_events is not called for it, whatever was decoded
\* before, and report_count is as it was.
C17_BadLengthAborts ==
    /\ hd[1].pc = "idle"
    /\ hd[1].data \in LengthInputs
    /\ ~hd[1].known
    => /\ hd[1].outcome = "Could not process report"
       /\ \A i \in DOMAIN sink : sink[i].seq # hd[1].seq
       /\ report_count = Len(sink)

\* The case of MetaCases that a report of MetaInputs was made of.
MetaOf(data) == CHOOSE case \in MetaCases : MetaReport(case) = data

\* C18: a valid, fresh report that is no replay and holds well-formed
\* SoftwareName, SoftwareVersion or EndUser subreports goes to handle_events
\* with each of these arguments equal to the payload of the last subreport
\* of its type in the stream.
C18_MetadataPassedOn ==
    /\ hd[1].pc = "idle"
    /\ hd[1].data \in MetaInputs
    /\ ~hd[1].known
    /\ ~(hd[1].at - hd[1].parsed.timestamp > 120)
    => /\ hd[1].outcome = "handled"
       /\ \E i \in DOMAIN sink :
             /\ sink[i].seq = hd[1].seq
             /\ sink[i].software_name = MetaOf(hd[1].data).software_name
             /\ sink[i].software_version = MetaOf(hd[1].data).software_version
             /\ sink[i].end_user = MetaOf(hd[1].data).end_user

\* ------------------------------------------------------------------------
\* Malformed framing
\* ------------------------------------------------------------------------
\* Datagrams with fewer than two bytes before the footer, with a user name
\* shorter than its length byte says, and with a user name that is not UTF-8.
Malformed == {NoHeader, ShortUsername, BadUtf8}

\* C20: handle of a datagram with malformed header framing ends in a
\* discard: it returns without raising, calls no handle_events, and leaves
\* recent_reports and report_count as they were.
C20_MalformedFramingDiscarded ==
    [][\A h \in Handlers :
          hd'[h].seq = received' /\ received' = received + 1
          /\ hd'[h].data \in Malformed
          => /\ hd'[h].pc = "idle"
             /\ hd'[h].outcome \notin Exceptions
             /\ UNCHANGED << recent_reports, report_count, sink >>
      ]_vars

\* ------------------------------------------------------------------------
\* Eligibility of addresses
\* ------------------------------------------------------------------------
\* The address is private, loopback, multicast, unspecified, site-local,
\* link-local or reserved.
Ineligible(address) ==
    \/ IsPrivate(address) \/ IsLoopback(address) \/ IsMulticast(address)
    \/ IsUnspecified(address) \/ IsSiteLocal(address) \/ IsLinkLocal(address)
    \/ IsReserved(address)

\* The addresses of the event records in a stream of subreports of formats
\* 1 to 4 that ends with the zero byte.
RECURSIVE AddressesIn(_)
AddressesIn(stream) ==
    IF Len(stream) < 3 THEN {}
    ELSE LET width == Widths[stream[1]]
             length == stream[2] * 256 + stream[3]
             octets == IF stream[1] \in {1, 3} THEN 4 ELSE 16
         IN  {[version |-> IF octets = 4 THEN 4 ELSE 6,
               packed |-> SubSeq(stream, 4 + k * width, 3 + k * width + octets)] :
                 k \in 0..((length \div width) - 1)}
             \cup AddressesIn(Drop(stream, 3 + length))

\* C19: making an IPEvent or a RepeatedIPEvent of an ineligible address
\* fails; no event in the events buffer and no event record in a report that
\* send_report generated has an ineligible address.
C19_OnlyEligibleAddresses ==
    /\ codec.op = "IPEvent" /\ Ineligible(codec.input)
          => codec.result.status = "AssertionError"
    /\ \A i \in DOMAIN events : \A j \in DOMAIN events[i].events :
          ~Ineligible(events[i].events[j].address)
    /\ last.made /\ last.generated.status = "ok" =>
          \A address \in AddressesIn(Drop(DropLast(last.generated.bytes, 10), 15)) :
              ~Ineligible(address)

\* A report with the records of two buffered events, of an IPv4 and of an
\* IPv6 address, was generated, and then an event of an ineligible address
\* was refused.
C19_Witness ==
    /\ codec.op = "IPEvent"
    /\ Ineligible(codec.input)
    /\ codec.result.status = "AssertionError"
    /\ last.made
    /\ last.generated.status = "ok"
    /\ Cardinality(AddressesIn(Drop(DropLast(last.generated.bytes, 10), 15))) = 2

\* ------------------------------------------------------------------------
\* Reports without subreports
\* ------------------------------------------------------------------------
\* C23: handle of a properly signed report with no byte after the random
\* bytes and the timestamp ends as an empty report: handle_events is not
\* called and recent_reports (and report_count) stay as they were.
C23_EmptyReportDiscarded ==
    [][\A h \in Handlers :
          hd'[h].seq = received' /\ received' = received + 1
          /\ hd'[h].data = EmptyReport
          => /\ hd'[h].pc = "idle"
             /\ hd'[h].outcome = "Empty report"
             /\ UNCHANGED << recent_reports, report_count, sink >>
      ]_vars

\* The empty report was turned down by a server that had accepted a report
\* before it.
C23_Witness ==
    /\ hd[1].data = EmptyReport
    /\ hd[1].pc = "idle"
    /\ hd[1].outcome = "Empty report"
    /\ Len(sink) = 1
    /\ recent_reports # {}

\* ------------------------------------------------------------------------
\* Event kinds beyond the table, the report count, discards
\* ------------------------------------------------------------------------
\* C24: a valid, fresh report that is no replay and holds an IPv4Events
\* record whose event-kind byte is 12 is given up as a whole: handle returns
\* after logging and raises nothing, and handle_events is not called for it.
C24_BadKindAborts ==
    /\ hd[1].pc = "idle"
    /\ hd[1].data = BadEvent
    /\ ~hd[1].known
    /\ ~(hd[1].at - hd[1].parsed.timestamp > 120)
    => /\ hd[1].outcome = "Could not process report"
       /\ hd[1].outcome \notin Exceptions
       /\ \A i \in DOMAIN sink : sink[i].seq # hd[1].seq

\* C25: whenever no handler is at work, report_count is the number of
\* handle_events calls that were made, whatever the order of the handlers'
\* steps was.
C25_CountMatchesSinkCalls ==
    (\A h \in Handlers : hd[h].pc = "idle") => report_count = Len(sink)

\* The datagram passes every check of handle that reads nothing but the
\* datagram and the credential provider: framing, version, secret, HMAC and
\* at least one byte after the timestamp.
Authentic(data) ==
    LET text == DropLast(data, 10)
        name == SubSeq(text, 3, 2 + text[2])
        secret == get_password(name)
    IN  /\ Len(data) >= 12
        /\ text[1] = 2
        /\ Len(text) >= 2 + text[2]
        /\ secret # None
        /\ secret[1] # << >>
        /\ TakeLast(data, 10) = Take(HmacSha1(secret[1], text), 10)
        /\ Len(text) >= 15 + text[2]

\* C26: handle of a datagram that fails a check before the decoding of
\* subreports (framing, version, user or secret, HMAC, empty body, age, or
\* replay) ends at once and leaves recent_reports, report_count and the
\* calls of handle_events as they were.
C26_DiscardLeavesStateAlone ==
    [][\A h \in Handlers :
          hd'[h].seq = received' /\ received' = received + 1
          /\ (\/ ~Authentic(hd'[h].data)
              \/ now - TimestampOf(hd'[h].data) > 120
              \/ PairOf(hd'[h].data) \in recent_reports)
          => /\ hd'[h].pc = "idle"
             /\ UNCHANGED << recent_reports, report_count, sink >>
      ]_vars

\* The third datagram was turned down as a replay, and the one report that
\* was accepted is still the only one remembered and counted.
C26_Witness ==
    /\ hd[1].pc = "idle"
    /\ hd[1].outcome = "Replayed report"
    /\ received = 3
    /\ report_count = 1
    /\ Len(sink) = 1
    /\ Cardinality(recent_reports) = 1

\* ------------------------------------------------------------------------
\* SoftwareVersion without SoftwareName, lengths of strings, the timestamp
\* ------------------------------------------------------------------------
\* C27: the list send_report builds holds a SoftwareVersion subreport only
\* if it holds a SoftwareName subreport; a forced send_report of a client
\* with a software version and no software name generates a report and
\* calls the transport.
C27_VersionOnlyWithName ==
    last.made =>
        LET subreports == Assemble(client, last.before)
        IN  /\ subreports.status = "ok"
                  /\ CountOf(subreports.value, "SoftwareVersion") > 0
               => CountOf(subreports.value, "SoftwareName") > 0
            /\ last.force /\ IsSet(client.software_version)
                  /\ ~IsSet(client.software_name)
                  /\ \A i \in DOMAIN last.before :
                        last.before[i].cls # "RepeatedIPv6Events"
               => /\ last.generated.status = "ok"
                  /\ last.calls = 1

\* C29: SoftwareName(value) succeeds exactly for values of 1 to 63 bytes,
\* SoftwareVersion(value) and EndUser(value) exactly for values of 1 to 31
\* bytes, and generate_report fails an assertion exactly for user names of
\* more than 63 bytes.
C29_StringLengthRanges ==
    /\ codec.op = "StringReport" =>
          LET most == IF codec.params.cls = "SoftwareName" THEN 63 ELSE 31
          IN  /\ codec.result.status = "ok"
                    <=> 1 <= Len(codec.input) /\ Len(codec.input) <= most
              /\ codec.result.bytes = << >>
    /\ codec.op = "generate_report" /\ ~Rejected(codec.input) =>
          /\ codec.result.status # "AssertionError"
                <=> Len(codec.params.username) <= 63
          /\ codec.result.status = "AssertionError" => codec.result.bytes = << >>

\* C30: for every clock reading era * 2^31 + time, generate_report returns
\* a report, and the four bytes after the random bytes are the reading
\* modulo 2^32, big-endian: bit 31 is the parity of era and the lower bits
\* are time.
C30_TimestampWraps ==
    codec.op = "generate_report" /\ ~Rejected(codec.input)
    /\ Len(codec.params.username) < 64
    => LET bytes == codec.result.bytes
           n == Len(codec.params.username)
           time == codec.params.time
       IN  /\ codec.result.status = "ok"
           /\ SubSeq(bytes, n + 11, n + 14)
                 = << 128 * (codec.params.era % 2) + time \div 16777216,
                      (time \div 65536) % 256, (time \div 256) % 256,
                      time % 256 >>

\* ------------------------------------------------------------------------
\* Layout of a generated report
\* ------------------------------------------------------------------------
\* C22: for every list that passes the assembly checks, generate_report
\* returns the version byte 2, the length of the username, the username, the
\* 8 random bytes, the 4 bytes of the timestamp (big-endian), the encodings
\* of the subreports in list order, and then the first 10 bytes of the
\* HMAC-SHA1 under the secret of all the bytes before them.
C22_ReportLayout ==
    codec.op = "generate_report" /\ ~Rejected(codec.input)
    => LET bytes == codec.result.bytes
           username == codec.params.username
           n == Len(username)
           text == DropLast(bytes, 10)
           time == codec.params.time
       IN  /\ codec.result.status = "ok"
           /\ Len(bytes) >= n + 24
           /\ bytes[1] = 2
           /\ bytes[2] = n
           /\ SubSeq(bytes, 3, n + 2) = username
           /\ SubSeq(bytes, n + 3, n + 10) = codec.params.random_bytes
           /\ SubSeq(bytes, n + 11, n + 14)
                 = << (time \div 16777216) % 256, (time \div 65536) % 256,
                      (time \div 256) % 256, time % 256 >>
           /\ \A i \in DOMAIN codec.input :
                 SubReport_str(codec.input[i]).status = "ok"
           /\ SubSeq(bytes, n + 15, Len(bytes) - 10)
                 = JoinSubReports(codec.input, 1).bytes
           /\ TakeLast(bytes, 10)
                 = Take(HmacSha1(codec.params.password, text), 10)

\* ------------------------------------------------------------------------
\* Event kinds and repeat counts
\* ------------------------------------------------------------------------
\* The event-kind bytes of the event records in a stream of subreports of
\* formats 1 to 4 that ends with the zero byte: the byte after the address.
RECURSIVE KindBytesIn(_)
KindBytesIn(stream) ==
    IF Len(stream) < 3 THEN {}
    ELSE LET width == Widths[stream[1]]
             length == stream[2] * 256 + stream[3]
             octets == IF stream[1] \in {1, 3} THEN 4 ELSE 16
         IN  {stream[4 + k * width + octets] : k \in 0..((length \div width) - 1)}
             \cup KindBytesIn(Drop(stream, 3 + length))

\* C21: making an event of kind RESERVED fails, no buffered event has that
\* kind, and no report that send_report generated holds an event record
\* whose event-kind byte is 0.
C21_ReservedNeverEmitted ==
    /\ codec.op = "IPEvent" /\ codec.params.event = "RESERVED"
          => codec.result.status # "ok"
    /\ \A i \in DOMAIN events : \A j \in DOMAIN events[i].events :
          events[i].events[j].event # "RESERVED"
    /\ last.made /\ last.generated.status = "ok" =>
          0 \notin KindBytesIn(Drop(DropLast(last.generated.bytes, 10), 15))

\* C28: making a RepeatedIPEvent of a reportable address succeeds exactly
\* when its repeat count is at least 2 and at most 255, and no buffered
\* repeated event has a count outside that range.
C28_RepeatRangeAtConstruction ==
    /\ codec.op = "IPEvent" /\ codec.params.repeat # None
       /\ ~Ineligible(codec.input)
          => (codec.result.status = "ok"
                 <=> 2 <= codec.params.repeat[1] /\ codec.params.repeat[1] <= 255)
    /\ \A i \in DOMAIN events : \A j \in DOMAIN events[i].events :
          events[i].events[j].repeat # None
             => /\ 2 <= events[i].events[j].repeat[1]
                /\ events[i].events[j].repeat[1] <= 255

\* ------------------------------------------------------------------------
\* From the client's buffer to handle_events
\* ------------------------------------------------------------------------
\* The events of the subreports of a buffer, in order.
RECURSIVE EventsOf(_)
EventsOf(buffer) ==
    IF buffer = << >> THEN << >>
    ELSE Head(buffer).events \o EventsOf(Tail(buffer))

\* C31: when handle has ended for a report that send_report made of a
\* buffer of IPv4Events and IPv6Events subreports, read not more than 120
\* seconds after its timestamp while its pair was not in recent_reports,
\* handle_events was called for it exactly once, with the client's username
\* and with the buffered events in the order of the buffer, and for that
\* report only.
C31_EndToEnd ==
    /\ hd[1].pc = "idle"
    /\ hd[1].seq > 0
    /\ ~hd[1].known
    /\ ~(hd[1].at - TimestampOf(hd[1].data) > 120)
    => /\ hd[1].data = last.generated.bytes
       /\ hd[1].outcome = "handled"
       /\ Cardinality({i \in DOMAIN sink : sink[i].seq = hd[1].seq}) = 1
       /\ Cardinality({i \in DOMAIN sink : sink[i].report = hd[1].data}) = 1
       /\ \A i \in DOMAIN sink :
             sink[i].seq = hd[1].seq
             => /\ sink[i].username = client.username
                /\ sink[i].events = EventsOf(last.before)
                /\ sink[i].software_name = None
                /\ sink[i].software_version = None
                /\ sink[i].end_user = None

\* A report made of a buffer with an IPv4Events and an IPv6Events subreport
\* arrived 120 seconds after it was made, and its four events went to
\* handle_events.
C31_Witness ==
    /\ hd[1].pc = "idle"
    /\ hd[1].outcome = "handled"
    /\ hd[1].at - TimestampOf(hd[1].data) = 120
    /\ Len(last.before) = 2
    /\ last.before[1].cls = "IPv4Events"
    /\ last.before[2].cls = "IPv6Events"
    /\ Len(sink) = 1
    /\ Len(sink[1].events) = 4
    /\ sink[1].events = EventsOf(last.before)

\* ------------------------------------------------------------------------
\* The order of the stages of handle
\* ------------------------------------------------------------------------
\* C32: handle of a datagram whose version byte is not 2 never ends with
\* the outcome of the password lookup or of the HMAC test; handle ends with
\* "Replayed report" only for a datagram that passed the HMAC test with its
\* user's secret, has a byte after the timestamp and is not too old; and a
\* pair is added to recent_reports only by a handler whose datagram is such
\* a one, and the pair is that datagram's.
C32_StageOrdering ==
    [][\A h \in Handlers :
          /\ hd'[h].seq = received' /\ received' = received + 1
             => /\ Len(hd'[h].data) >= 12 /\ hd'[h].data[1] # 2
                   => hd'[h].outcome
                         \notin {"No password found", "Failed password check",
                                  "Empty report", "Report too old",
                                  "Replayed report", "none"}
                /\ hd'[h].outcome \in {"Replayed report", "none"}
                   => /\ Authentic(hd'[h].data)
                      /\ ~(now - TimestampOf(hd'[h].data) > 120)
                /\ UNCHANGED recent_reports
          /\ hd[h].pc \in {"tested", "cleared"} /\ hd'[h].pc # hd[h].pc
             => /\ recent_reports' \subseteq recent_reports \cup {PairOf(hd[h].data)}
                /\ Authentic(hd[h].data)
                /\ ~(hd[h].at - TimestampOf(hd[h].data) > 120)
      ]_vars

\* A report of version 3 of an unknown user was turned down for its version
\* by a server that remembers the pair of a report it accepted.
C32_Witness ==
    /\ hd[1].pc = "idle"
    /\ hd[1].data = Signed(Header(3, << 120 >>, Nonce(1), T0) \o GoodBody, SecretA)
    /\ hd[1].outcome = "Unknown version"
    /\ recent_reports = {PairOf(GoodA)}
    /\ Len(sink) = 1

\* ------------------------------------------------------------------------
\* Reports given up while their subreports are decoded
\* ------------------------------------------------------------------------
\* C33: the step of handle that gives a report up while its subreports are
\* decoded leaves the report's (timestamp, random bytes) pair in
\* recent_reports, and report_count and the calls of handle_events as they
\* were; a report with a wrong subreport length that is read while its pair
\* is in recent_reports is discarded as a replay.
C33_AbortedReportIsRemembered ==
    [][\A h \in Handlers :
          /\ hd[h].pc \in {"tested", "cleared"} /\ hd'[h].pc = "idle"
             => /\ PairOf(hd[h].data) \in recent_reports'
                /\ hd'[h].outcome # "handled"
                /\ UNCHANGED << report_count, sink >>
          /\ hd'[h].seq = received' /\ received' = received + 1
             /\ hd'[h].data \in LengthInputs
             /\ PairOf(hd'[h].data) \in recent_reports
             => /\ hd'[h].pc = "idle"
                /\ hd'[h].outcome = "Replayed report"
                /\ UNCHANGED << recent_reports, report_count, sink >>
      ]_vars

\* A report with a wrong subreport length was discarded as a replay on a
\* server that had called handle_events for no report: its pair was recorded
\* by a report that was given up.
C33_Witness ==
    /\ hd[1].pc = "idle"
    /\ hd[1].data \in LengthInputs
    /\ hd[1].outcome = "Replayed report"
    /\ PairOf(hd[1].data) \in recent_reports
    /\ sink = << >>
    /\ report_count = 0

\* ------------------------------------------------------------------------
\* Replays across users
\* ------------------------------------------------------------------------
\* C34: a properly signed, fresh report of one user whose (timestamp, random
\* bytes) pair is in recent_reports when it is tested, recorded there by a
\* report of another user that went to handle_events, is discarded as a
\* replay: handle_events is not called for it.
C34_ReplayKeyedOnPairAlone ==
    /\ hd[1].pc = "idle"
    /\ hd[1].parsed.stage = "ok"
    /\ ~(hd[1].at - hd[1].parsed.timestamp > 120)
    /\ hd[1].known
    /\ \E i \in DOMAIN sink :
          /\ sink[i].seq < hd[1].seq
          /\ sink[i].username # hd[1].parsed.username
          /\ PairOf(sink[i].report) = PairOf(hd[1].data)
    => /\ hd[1].outcome = "Replayed report"
       /\ \A i \in DOMAIN sink : sink[i].seq # hd[1].seq

\* The report of user "b" was discarded as a replay of the one report that
\* had gone to handle_events, a report of user "a" with the same pair.
C34_Witness ==
    /\ hd[1].pc = "idle"
    /\ hd[1].data = Report(UserB, Nonce(1), T0, GoodBody)
    /\ hd[1].outcome = "Replayed report"
    /\ Len(sink) = 1
    /\ sink[1].report = GoodA
    /\ sink[1].username = UserA
    /\ report_count = 1

\* ------------------------------------------------------------------------
\* The end of the subreports
\* ------------------------------------------------------------------------
\* The events that stand before the zero tag in a report of StopInputs.
BeforeStop(data) == (CHOOSE case \in StopCases : StopReport(case) = data).expected

\* C35: for a report in which a subreport boundary begins with the tag byte
\* 0, handle_events is called with no more than the events decoded before
\* that boundary and with no software name, software version or end user
\* (none stands before it); handle of such a report, valid, fresh and no
\* replay, either calls handle_events in this way or gives the report up
\* with "Could not process report".
C35_NothingAfterEndOfReport ==
    /\ \A i \in DOMAIN sink :
          sink[i].report \in StopInputs
          => /\ sink[i].events = BeforeStop(sink[i].report)
             /\ sink[i].software_name = None
             /\ sink[i].software_version = None
             /\ sink[i].end_user = None
    /\ hd[1].pc = "idle" /\ hd[1].data \in StopInputs /\ ~hd[1].known
       => \/ hd[1].outcome = "Could not process report"
             /\ \A i \in DOMAIN sink : sink[i].seq # hd[1].seq
          \/ hd[1].outcome = "handled"
             /\ \E i \in DOMAIN sink : sink[i].seq = hd[1].seq

\* A report with an IPv4Events subreport, the zero byte and one more byte
\* went to handle_events with the two events before the zero byte.
C35_Witness ==
    /\ hd[1].pc = "idle"
    /\ hd[1].data = Report(UserA, Nonce(1), T0, WireV4 \o << 0, 5 >>)
    /\ hd[1].outcome = "handled"
    /\ Len(sink) = 1
    /\ sink[1].report = hd[1].data
    /\ sink[1].events = << AutoSpam, Greylisted >>

\* ------------------------------------------------------------------------
\* Eviction from recent_reports
\* ------------------------------------------------------------------------
\* The entries that are more than 120 seconds old on a server that runs for
\* ever.
OldEntries == {<< T0 - 121, Nonce(k) >> : k \in {1, 2}}

\* C7: if the clearing loop runs again and again, every entry of
\* recent_reports whose timestamp is more than 120 seconds old is removed at
\* some time.
C7_OldEntriesEvicted ==
    \A r \in OldEntries :
        []<><<ClearOldReports(1)>>_vars
            => ((r \in recent_reports /\ now - r[1] > 120) ~> (r \notin recent_reports))

\* The clearing loop is about to run while two entries are more than 120
\* seconds old.
C7_Witness ==
    /\ hd[1].pc = "tested"
    /\ Cardinality({r \in recent_reports : now - r[1] > 120}) = 2

====
